---- MODULE Spec2Model ----
(***************************************************************************)
(* A model of the status-report generator: the GitHub collector            *)
(* (src/src/github_collector.py), the report generator                     *)
(* (src/src/report_generator.py), the entry point (src/src/main.py,        *)
(* src/src/config.py) and the legacy script (src/main.py).                 *)
(*                                                                         *)
(* Encoding of Python values:                                              *)
(*   - Optional[X] is a sequence of length at most one: <<>> is None.      *)
(*   - An issue dict is a record with the keys number, title, url, type,   *)
(*     labels, comments, repository; a key the dict does not carry holds   *)
(*     0, "" or <<>>.  type is the name of the issue type, "" when the     *)
(*     dict has no type (issue.get("type") is falsy).                      *)
(*   - A label is [shape, name]: shape "str" for a plain string label,     *)
(*     "dict" for {"name": ...}.                                           *)
(*   - The url of issue i is the integer i; 0 is a missing url.            *)
(*   - Timestamps are integers (hours, UTC).                               *)
(*                                                                         *)
(* Specifications:                                                         *)
(*   - SpecResolve: one direct call of find_case_parent.                   *)
(*   - Spec: one call of a collector method (commits, pull requests or     *)
(*     issues; rolling or exact), the pull requests followed by            *)
(*     generate_report.                                                    *)
(*   - SpecMain: one run of main(), the collector calls taken as steps     *)
(*     that return or raise.                                               *)
(***************************************************************************)
EXTENDS Integers, Sequences, FiniteSets, TLC

(***************************************************************************)
(* Bounds of the model                                                     *)
(***************************************************************************)
\* Number of issues the platform knows (urls 1..NumIssues).
NumIssues == 3
\* Largest max_depth argument tried on a direct call of find_case_parent.
MaxDepth == 3
\* Timestamps are 0..MaxTime.
MaxTime == 3
\* Number of commits (shas 1..NumShas) the platform can return.
NumShas == 3
\* settings["github_api"]["per_page"].
MaxRuns == 3
MaxItems == 2
MaxPrs == 2
First == 1
PerPage == 1
\* Pages of commits a branch can have; the page after them is empty.
MaxPages == 2
\* Pull requests the pull listings of one call return, over all repositories.
NumPulls == 1
\* Issues the issue listings (or the project scan) of one call return.
NumListed == 1

(***************************************************************************)
(* Program constants                                                       *)
(***************************************************************************)
\* find_case_parent(self, issue, max_depth=10)
DefaultMaxDepth == 10
\* timedelta(days=days_back), in hours
DayLength == 24
\* pytz.timezone('Europe/Moscow'): the zone's offset from UTC, in hours
MoscowOffset == 3

Issues == 1..NumIssues
Times == 0..MaxTime
Shas == 1..NumShas
Repos == <<"r1", "r2">>
BranchNames == <<"main", "dev">>

\* How an issue looks on the platform: "plain" has no type and an ordinary
\* label, "typed" has the issue type Case, "labelled" has another type and
\* carries the legacy label in upper case.
Kinds == {"plain", "typed", "labelled"}

VARIABLES
    \* ---- the platform (what the API would answer) ----
    parent_of,      \* issue -> its parent issue, 0 when it has none
    kind,           \* issue -> Kinds
    \* ---- find_case_parent: the running call ----
    r_pc,           \* "idle" | "call" | "done"
    r_issue,        \* the issue argument of the innermost call
    r_depth,        \* the max_depth argument of the innermost call
    r_result,       \* Optional[dict]: the value returned
    r_fetches,      \* parent requests issued since the outermost call
    r_entry,        \* the issue argument of the outermost call
    r_entry_depth,  \* the max_depth argument of the outermost call
    r_first,        \* Optional: what the first call returned, once its result
                    \* was passed to a second call
    \* ---- get_parent_issue_via_rest_api: one call ----
    g_pc,           \* "idle" | "call" | "returned" | "raised"
    g_url,          \* the issue_url argument
    g_response,     \* Optional: the answer to the request, if one was issued
    g_requests,     \* requests.get calls made
    g_result,       \* Optional[dict]: the value returned
    \* ---- one comment on its way from the platform to the report ----
    f_pc,           \* "idle" | "served" | "collected" | "rendered"
    f_served,       \* comment["body"] as the platform serves it
    f_body,         \* the "body" of the collected comment dict
    f_rendered,     \* what _format_comment returns for it
    \* ---- one scan of a project's items ----
    s_pc,           \* "idle" | "scan" | "returned" | "raised" | "continued"
    s_variant,      \* which scan runs: "collector" | "legacy" | "incidents"
    s_project,      \* Optional: the items of the project, in cursor order
    s_cursor,       \* pages fetched so far
    s_items,        \* the list being filled, then returned
    s_failed,       \* a page query has failed
    \* ---- collect_recent_comments_and_prs of the legacy script ----
    l_pc,           \* "idle" | "call" | "returned" | "raised"
    l_issues,       \* the argument issues
    l_all_prs,      \* the argument all_prs
    l_incidents,    \* the argument incidents
    recent_comments, \* the flat list of recent issue comments
    recent_prs,     \* the pull requests sent for review recently
    recent_incidents, \* the incidents with recent activity
    \* ---- one call of a collector method ----
    task,           \* which method runs: "commits" | "prs" | "issues" | "none"
    mode,           \* "rolling" (the ..._for_period methods) | "exact"
    now,            \* datetime.now(timezone.utc) at the call (rolling)
    days_back,      \* the days_back argument (rolling)
    start_time,     \* the start_time argument, Moscow wall clock (exact)
    end_time,       \* the end_time argument, Moscow wall clock (exact)
    cfg_repositories, \* config.repositories: Optional[list]
    \* ---- get_commits_for_period / get_commits_for_exact_period ----
    c_pc,           \* "idle" | "repos" | "branches" | "fetch" | "done" | "raised"
    repositories,   \* the list the method iterates
    c_repo,         \* index into repositories of the repository in work
    c_branches,     \* get_all_branches(repo)
    c_branch,       \* index into c_branches
    c_page,         \* the page requested next
    repo_commits,   \* the list being filled for the repository in work
    all_commits,    \* repository -> its finished, sorted list
    c_seen,         \* repository -> the shas the platform has returned for it
    c_repeated,     \* the platform returned some commit of a repository twice
    c_reordered,    \* the sort at the end of some repository changed the order
    c_unread,       \* Optional: a commit of the period on the page after the
                    \* one an exact call stopped a branch at
    c_failed,       \* Optional: the repository and the list it held when a
                    \* page request last raised
    \* ---- settings.json ----
    include_pr_section, \* settings["report_format"]["include_pr_section"]
    \* ---- get_pull_requests_for_period / ..._for_exact_period ----
    p_pc,           \* "idle" | "repos" | "list" | "done" | "raised" | "reported"
    p_repositories, \* the list the method iterates
    p_repo,         \* index into p_repositories of the repository in work
    all_prs,        \* repository -> its list of pr_info
    p_fetched,      \* repository -> the pull requests the platform served for it
    report,         \* the lines generate_report returns
    p_error,        \* the request whose exception the method raised, "" if none
    \* ---- get_issues_for_period / get_issues_for_exact_period ----
    project_configured, \* config.project_number and config.columns
    i_pc,           \* "idle" | "project" | "repos" | "list" | "done" | "raised"
    i_repositories, \* the list the method iterates
    i_repo,         \* index into i_repositories of the repository in work
    all_issues,     \* repository -> its list of kept issues
    i_fetched,      \* the issues the platform served, in request order
    i_error,        \* the request whose exception the method raised, "" if none
    include_case_sections, \* settings["report_format"]["include_case_sections"]
    i_report,       \* the lines generate_report returns for the issues
    \* ---- main(): the environment, settings.json and the command line ----
    has_token,      \* MY_GH_TOKEN is set
    has_org,        \* MY_GH_ORG is set
    has_owner,      \* MY_GH_OWNER is set
    telegram_configured, \* TELEGRAM_BOT_TOKEN and TELEGRAM_CHAT_ID are set
    send_telegram,  \* settings["output_settings"]["send_telegram"]
    send_zulip,     \* settings["output_settings"].get("send_zulip", False)
    arg_time,       \* --start-time/--end-time: "none" | "partial" (one of
                    \* the two given) | "valid" | "malformed" (both given)
    arg_dry_run,    \* --dry-run
    arg_telegram,   \* --telegram
    arg_zulip,      \* --zulip
    \* ---- main(): the run ----
    m_pc,           \* the statement main is at; "exit" once the process ended
    m_modes,        \* the mode of each collection made so far
    exit_code,      \* the exit status; -1 while the process runs
    file_saved,     \* save_report has written the report file
    m_network,      \* some request has been issued
    m_error,        \* the call whose exception ended the run, "" if none
    m_lookup_failed, \* a call of get_org_repositories has raised
    telegram_result, \* "none" | "sent" | "failed"
    zulip_result    \* "none" | "sent" | "failed" | "raised"

platformVars == <<parent_of, kind>>
resolverVars == <<r_pc, r_issue, r_depth, r_result, r_fetches, r_entry, r_entry_depth,
                  r_first>>
parentVars == <<g_pc, g_url, g_response, g_requests, g_result>>
formatVars == <<f_pc, f_served, f_body, f_rendered>>
scanVars == <<s_pc, s_variant, s_project, s_cursor, s_items, s_failed>>
legacyVars == <<l_pc, l_issues, l_all_prs, l_incidents, recent_comments,
                recent_prs, recent_incidents>>
callVars == <<task, mode, now, days_back, start_time, end_time, cfg_repositories>>
commitVars == <<c_pc, repositories, c_repo, c_branches, c_branch, c_page,
                repo_commits, all_commits, c_seen, c_repeated, c_reordered, c_unread,
                c_failed>>
pullVars == <<include_pr_section, p_pc, p_repositories, p_repo, all_prs,
              p_fetched, report, p_error>>
issueVars == <<project_configured, i_pc, i_repositories, i_repo, all_issues,
               i_fetched, i_error, include_case_sections, i_report>>
inputVars == <<has_token, has_org, has_owner, telegram_configured, send_telegram,
               send_zulip, arg_time, arg_dry_run, arg_telegram, arg_zulip>>
runVars == <<m_pc, m_modes, exit_code, file_saved, m_network, m_error,
             m_lookup_failed, telegram_result, zulip_result>>
mainVars == <<inputVars, runVars>>
vars == <<platformVars, resolverVars, parentVars, formatVars, scanVars, legacyVars, callVars, commitVars, pullVars,
          issueVars, mainVars>>

nonResolverVars == <<platformVars, parentVars, formatVars, scanVars, legacyVars, callVars, commitVars, pullVars,
                     issueVars, mainVars>>
nonParentVars == <<platformVars, resolverVars, formatVars, scanVars, legacyVars, callVars, commitVars,
                   pullVars, issueVars, mainVars>>
nonFormatVars == <<platformVars, resolverVars, parentVars, scanVars, legacyVars, callVars,
                   commitVars, pullVars, issueVars, mainVars>>
nonScanVars == <<platformVars, resolverVars, parentVars, formatVars, legacyVars,
                 callVars, commitVars, pullVars, issueVars, mainVars>>
nonLegacyVars == <<platformVars, resolverVars, parentVars, formatVars, scanVars,
                   callVars, commitVars, pullVars, issueVars, mainVars>>
nonCommitVars == <<platformVars, resolverVars, parentVars, formatVars, scanVars, legacyVars, callVars, pullVars,
                   issueVars, mainVars>>
nonPullVars == <<platformVars, resolverVars, parentVars, formatVars, scanVars, legacyVars, callVars, commitVars,
                 issueVars, mainVars>>
nonIssueVars == <<platformVars, resolverVars, parentVars, formatVars, scanVars, legacyVars, callVars, commitVars,
                  pullVars, mainVars>>
nonMainVars == <<platformVars, resolverVars, parentVars, formatVars, scanVars, legacyVars, callVars, commitVars,
                 pullVars, issueVars, inputVars>>

(***************************************************************************)
(* Strings                                                                 *)
(***************************************************************************)
\* str.lower() on the strings of the model.
Lower(s) ==
    CASE s = "Case" -> "case"
      [] s = "CASE" -> "case"
      [] s = "Task" -> "task"
      [] OTHER -> s

(***************************************************************************)
(* Platform data                                                           *)
(***************************************************************************)
TypeOfKind(k) == CASE k = "typed" -> "Case" [] k = "labelled" -> "Task" [] OTHER -> ""

LabelNamesOfKind(k) == IF k = "labelled" THEN <<"bug", "CASE">> ELSE <<"bug">>

\* The JSON body of GET /repos/{owner}/{repo}/issues/{n}: labels are dicts.
IssueJson(i) ==
    [title    |-> i,
     html_url |-> i,
     type     |-> TypeOfKind(kind[i]),
     labels   |-> [k \in DOMAIN LabelNamesOfKind(kind[i]) |->
                      [name |-> LabelNamesOfKind(kind[i])[k]]]]

\* What requests.get(parent_url) can produce for the issue at url: the parent
\* with status 200, 404 when there is none, a server error, or an exception
\* (status 0).
ParentResponses(url) ==
    (IF url \in Issues /\ parent_of[url] # 0
        THEN {[status |-> 200, body |-> <<IssueJson(parent_of[url])>>]}
        ELSE {[status |-> 404, body |-> <<>>]})
    \cup {[status |-> 500, body |-> <<>>], [status |-> 0, body |-> <<>>]}

(***************************************************************************)
(* GitHubCollector.get_parent_issue_via_rest_api                           *)
(***************************************************************************)
\* The urls of the model.  A positive number i is the canonical url of issue
\* i, https://github.com/owner/repo/issues/i; 0 is None; the negative ones are
\* urls of other things the platform hands out.
PullUrl == -1        \* https://github.com/owner/repo/pull/1
RepositoryUrl == -2  \* https://github.com/owner/repo
ApiUrl == -3         \* https://api.github.com/repos/owner/repo/issues/1
Urls == Issues \cup {0, PullUrl, RepositoryUrl, ApiUrl}

\* issue_url.replace("https://github.com/", "").split("/")
UrlParts(url) ==
    CASE url = PullUrl -> <<"owner", "repo", "pull", "1">>
      [] url = RepositoryUrl -> <<"owner", "repo">>
      [] url = ApiUrl -> <<"https:", "", "api.github.com", "repos", "owner",
                           "repo", "issues", "1">>
      [] OTHER -> <<"owner", "repo", "issues", "number">>

\* No check of the url at all.
UrlShapeUnchecked(url) == TRUE

\* len(parts) >= 4 and parts[2] == "issues": the url has the shape
\* https://github.com/<owner>/<repo>/issues/<number>.  On None the replace
\* raises AttributeError inside the try, which ends the same way as a failed
\* test: no request, return None.
UrlHasIssueShape(url) ==
    /\ url # 0
    /\ Len(UrlParts(url)) >= 4
    /\ UrlParts(url)[3] = "issues"

\* The value returned for the response resp: the body on 200, else None.
GetParentIssueViaRestApi(url, resp) ==
    IF UrlHasIssueShape(url) /\ resp.status = 200 THEN resp.body ELSE <<>>

\* One call of get_parent_issue_via_rest_api.  Everything that can raise
\* (replace on None, requests.get, response.json) is inside the try, whose
\* except prints and falls through to return None.
ParentLookup ==
    /\ g_pc = "call"
    /\ IF UrlHasIssueShape(g_url)
          THEN \E resp \in ParentResponses(g_url) :
                  /\ g_response' = <<resp>>
                  /\ g_requests' = g_requests + 1
                  /\ g_result' = GetParentIssueViaRestApi(g_url, resp)
          ELSE /\ g_result' = <<>>
               /\ UNCHANGED <<g_response, g_requests>>
    /\ g_pc' = "returned"
    /\ UNCHANGED g_url
    /\ UNCHANGED nonParentVars

(***************************************************************************)
(* GitHubCollector.find_case_parent                                        *)
(***************************************************************************)
\* issue_type == "case"
IsCaseByType(issue) == issue.type # "" /\ Lower(issue.type) = "case"

\* a label, string or dict, whose lower-cased name is "case"
IsCaseByLabel(issue) ==
    \E k \in DOMAIN issue.labels : Lower(issue.labels[k].name) = "case"

IsCaseIssue(issue) == IsCaseByType(issue) \/ IsCaseByLabel(issue)

\* A parent check that looks at the type alone.
ParentIsCaseByTypeOnly(data) == data.type # "" /\ Lower(data.type) = "case"

\* parent_type == "case" or any(label["name"].lower() == "case")
ParentIsCase(data) ==
    \/ (data.type # "" /\ Lower(data.type) = "case")
    \/ \E k \in DOMAIN data.labels : Lower(data.labels[k].name) = "case"

\* A projection that leaves the labels out.
ParentProjectionUnlabelled(data) ==
    [number     |-> 0,
     title      |-> data.title,
     url        |-> data.html_url,
     type       |-> data.type,
     labels     |-> <<>>,
     comments   |-> <<>>,
     repository |-> ""]

\* The dict built from the parent's JSON (returned, or passed to the
\* recursive call, as converted_parent).
ParentProjection(data) ==
    [number     |-> 0,
     title      |-> data.title,
     url        |-> data.html_url,
     type       |-> data.type,
     labels     |-> [k \in DOMAIN data.labels |->
                        [shape |-> "dict", name |-> data.labels[k].name]],
     comments   |-> <<>>,
     repository |-> ""]

\* A recursion that passes max_depth on unchanged.
RecursiveDepthKept(d) == d

\* The max_depth passed to the recursive call.
RecursiveDepth(d) == d - 1

\* if max_depth <= 0: return None
FCP_DepthExhausted ==
    /\ r_pc = "call"
    /\ r_depth <= 0
    /\ r_result' = <<>>
    /\ r_pc' = "done"
    /\ UNCHANGED <<r_issue, r_depth, r_fetches, r_entry, r_entry_depth, r_first>>
    /\ UNCHANGED nonResolverVars

\* the issue is a Case itself: return issue
FCP_IsCase ==
    /\ r_pc = "call"
    /\ r_depth > 0
    /\ IsCaseIssue(r_issue)
    /\ r_result' = <<r_issue>>
    /\ r_pc' = "done"
    /\ UNCHANGED <<r_issue, r_depth, r_fetches, r_entry, r_entry_depth, r_first>>
    /\ UNCHANGED nonResolverVars

\* The request find_case_parent makes for a non-Case issue, and its outcome.
FCP_Ready == r_pc = "call" /\ r_depth > 0 /\ ~IsCaseIssue(r_issue)

\* no url, a url of another shape, a non-200 answer or an exception: return None
FCP_ParentAbsent ==
    /\ FCP_Ready
    /\ \E resp \in ParentResponses(r_issue.url) :
          /\ GetParentIssueViaRestApi(r_issue.url, resp) = <<>>
          /\ r_fetches' = IF UrlHasIssueShape(r_issue.url) THEN r_fetches + 1 ELSE r_fetches
    /\ r_result' = <<>>
    /\ r_pc' = "done"
    /\ UNCHANGED <<r_issue, r_depth, r_entry, r_entry_depth, r_first>>
    /\ UNCHANGED nonResolverVars

\* the parent is a Case: return its projection
FCP_ParentIsCase ==
    /\ FCP_Ready
    /\ \E resp \in ParentResponses(r_issue.url) :
          LET parent == GetParentIssueViaRestApi(r_issue.url, resp) IN
          /\ parent # <<>>
          /\ ParentIsCase(parent[1])
          /\ r_result' = <<ParentProjection(parent[1])>>
    /\ r_fetches' = r_fetches + 1
    /\ r_pc' = "done"
    /\ UNCHANGED <<r_issue, r_depth, r_entry, r_entry_depth, r_first>>
    /\ UNCHANGED nonResolverVars

\* the parent is not a Case: return self.find_case_parent(converted_parent, max_depth - 1)
FCP_Recurse ==
    /\ FCP_Ready
    /\ \E resp \in ParentResponses(r_issue.url) :
          LET parent == GetParentIssueViaRestApi(r_issue.url, resp) IN
          /\ parent # <<>>
          /\ ~ParentIsCase(parent[1])
          /\ r_issue' = ParentProjection(parent[1])
    /\ r_depth' = RecursiveDepth(r_depth)
    /\ r_fetches' = r_fetches + 1
    /\ UNCHANGED <<r_pc, r_result, r_entry, r_entry_depth, r_first>>
    /\ UNCHANGED nonResolverVars

FindCaseParent ==
    \/ FCP_DepthExhausted
    \/ FCP_IsCase
    \/ FCP_ParentAbsent
    \/ FCP_ParentIsCase
    \/ FCP_Recurse

(***************************************************************************)
(* The time window                                                         *)
(***************************************************************************)
\* since_date = datetime.now(timezone.utc) - timedelta(days=days_back)
SinceDate == now - days_back * DayLength

\* t.astimezone(timezone.utc) for a Moscow wall-clock time t
AsUtc(t) == t - MoscowOffset

StartUtc == AsUtc(start_time)
EndUtc == AsUtc(end_time)

\* start_utc <= date <= end_utc
InExactRange(date) == StartUtc <= date /\ date <= EndUtc

(***************************************************************************)
(* Sorting by date, newest first: list.sort(key=date, reverse=True)        *)
(***************************************************************************)
\* x goes behind every entry that is not older: the sort is stable.
RECURSIVE InsertByDateDesc(_, _)
InsertByDateDesc(sorted, x) ==
    IF sorted = <<>> THEN <<x>>
    ELSE IF Head(sorted).date >= x.date
         THEN <<Head(sorted)>> \o InsertByDateDesc(Tail(sorted), x)
         ELSE <<x>> \o sorted

\* A sort that leaves the list as it is.
SortKeepsOrder(list) == list

RECURSIVE SortByDateDesc(_)
SortByDateDesc(list) ==
    IF list = <<>> THEN <<>>
    ELSE InsertByDateDesc(SortByDateDesc(SubSeq(list, 1, Len(list) - 1)),
                          list[Len(list)])

(***************************************************************************)
(* GitHubCollector.get_commits_for_period / get_commits_for_exact_period   *)
(* The commit dicts keep sha, date and repository; message, author, url    *)
(* and branch are not modelled.                                            *)
(***************************************************************************)
\* The author date of a commit (platform data): sha 1 is the oldest.
CommitDate(sha) == sha - 1

\* One element of the JSON list GET /repos/{owner}/{repo}/commits returns.
CommitJson(sha) == [sha |-> sha, date |-> CommitDate(sha)]

\* The pages the platform can answer with: any commits in any order, at most
\* per_page of them, and none beyond the last page a branch has.
CommitPages ==
    UNION {[1..n -> {CommitJson(x) : x \in Shas}] :
              n \in 0..(IF c_page <= MaxPages THEN PerPage ELSE 0)}

\* A duplicate check that never finds the sha.
AlreadyCollectedNever(list, sha) == FALSE

\* any(existing["sha"] == commit["sha"] for existing in repo_commits)
AlreadyCollected(list, sha) == \E k \in DOMAIN list : list[k].sha = sha

\* Whether the loop takes the commit: always in a rolling call (the platform
\* applies "since"), start_utc <= commit_date <= end_utc in an exact call.
CommitInPeriod(commit) == mode = "exact" => InExactRange(commit.date)

CommitInfo(commit, repo) ==
    [sha |-> commit.sha, date |-> commit.date, repository |-> repo]

\* for commit in commits_data: ... repo_commits.append(commit_info)
RECURSIVE AddPage(_, _, _)
AddPage(list, page, repo) ==
    IF page = <<>> THEN list
    ELSE LET commit == Head(page) IN
         AddPage(IF CommitInPeriod(commit) /\ ~AlreadyCollected(list, commit.sha)
                    THEN Append(list, CommitInfo(commit, repo))
                    ELSE list,
                 Tail(page), repo)

\* The exact call stops a branch when every commit of the page is newer than
\* end_utc.
PagePastEnd(page) ==
    /\ mode = "exact"
    /\ page # <<>>
    /\ \A k \in DOMAIN page : page[k].date > EndUtc

\* The stop leaves pages of the branch unread: the page was full and was not
\* the last one the branch has.
StopsBeforeLastPage(page) ==
    PagePastEnd(page) /\ Len(page) = PerPage /\ c_page < MaxPages

\* What the next page of the branch can hold of the period (the listing is
\* newest first: what follows a page newer than end_utc is older).
UnreadOfPeriod ==
    {<<[repository |-> repositories[c_repo], sha |-> x]>> :
        x \in {x \in Shas : InExactRange(CommitDate(x))}}

\* The dict d with d[key] = value.
DictPut(d, key, value) ==
    [k \in DOMAIN d \cup {key} |-> IF k = key THEN value ELSE d[k]]

DictGet(d, key, default) == IF key \in DOMAIN d THEN d[key] ELSE default

CurrentRepo == repositories[c_repo]

\* The list the loop over repositories is given: config.repositories, or
\* what get_org_repositories() returns.
RepositoryLists == {SubSeq(Repos, 1, n) : n \in 0..Len(Repos)}

\* repositories = self.get_org_repositories() or self.config.repositories
CommitsGetRepositories ==
    /\ task = "commits"
    /\ c_pc = "repos"
    /\ \E repos \in (IF cfg_repositories = <<>> THEN RepositoryLists
                                               ELSE {cfg_repositories[1]}) :
          /\ repositories' = repos
          /\ c_repo' = IF repos = <<>> THEN 0 ELSE 1
          /\ c_pc' = IF repos = <<>> THEN "done" ELSE "branches"
    /\ UNCHANGED <<c_branches, c_branch, c_page, repo_commits, all_commits,
                   c_seen, c_repeated, c_reordered>>
    /\ UNCHANGED <<c_unread, c_failed>>
    /\ UNCHANGED nonCommitVars

\* get_org_repositories() raises (raise_for_status): the method raises.
CommitsGetRepositoriesFails ==
    /\ task = "commits"
    /\ c_pc = "repos"
    /\ cfg_repositories = <<>>
    /\ c_pc' = "raised"
    /\ UNCHANGED <<repositories, c_repo, c_branches, c_branch, c_page,
                   repo_commits, all_commits, c_seen, c_repeated, c_reordered>>
    /\ UNCHANGED <<c_unread, c_failed>>
    /\ UNCHANGED nonCommitVars

\* The end of a repository: sort its list, store it, go to the next one.
FinishRepo(list) ==
    /\ all_commits' = DictPut(all_commits, CurrentRepo, SortByDateDesc(list))
    /\ c_reordered' = (c_reordered \/ SortByDateDesc(list) # list)
    /\ repo_commits' = <<>>
    /\ c_branches' = <<>>
    /\ c_branch' = 0
    /\ c_page' = 0
    /\ c_repo' = IF c_repo < Len(repositories) THEN c_repo + 1 ELSE c_repo
    /\ c_pc' = IF c_repo < Len(repositories) THEN "branches" ELSE "done"

\* branches = self.get_all_branches(repo)
CommitsGetAllBranches ==
    /\ c_pc = "branches"
    /\ \E n \in 0..Len(BranchNames) :
          LET branches == SubSeq(BranchNames, 1, n) IN
          IF branches = <<>>
             THEN FinishRepo(<<>>)
             ELSE /\ c_branches' = branches
                  /\ c_branch' = 1
                  /\ c_page' = 1
                  /\ c_pc' = "fetch"
                  /\ UNCHANGED <<c_repo, repo_commits, all_commits, c_reordered>>
    /\ c_seen' = DictPut(c_seen, CurrentRepo, {})
    /\ UNCHANGED <<repositories, c_repeated>>
    /\ UNCHANGED <<c_unread, c_failed>>
    /\ UNCHANGED nonCommitVars

\* get_all_branches(repo) raises: the method raises.
CommitsGetAllBranchesFails ==
    /\ c_pc = "branches"
    /\ c_pc' = "raised"
    /\ UNCHANGED <<repositories, c_repo, c_branches, c_branch, c_page,
                   repo_commits, all_commits, c_seen, c_repeated, c_reordered>>
    /\ UNCHANGED <<c_unread, c_failed>>
    /\ UNCHANGED nonCommitVars

\* break: the next branch, or the end of the repository.
EndBranch(list) ==
    IF c_branch < Len(c_branches)
       THEN /\ c_branch' = c_branch + 1
            /\ c_page' = 1
            /\ repo_commits' = list
            /\ UNCHANGED <<c_pc, c_repo, c_branches, all_commits, c_reordered>>
       ELSE FinishRepo(list)

\* One turn of the while loop: the page arrives.
CommitsFetchPage ==
    /\ c_pc = "fetch"
    /\ \E page \in CommitPages :
          LET list == AddPage(repo_commits, page, CurrentRepo)
              shas == {page[k].sha : k \in DOMAIN page}
              seen == DictGet(c_seen, CurrentRepo, {})
              twice == {page[k].sha : k \in {k \in DOMAIN page :
                           \E j \in 1..(k - 1) : page[j].sha = page[k].sha}} IN
          /\ IF page = <<>> \/ PagePastEnd(page) \/ Len(page) < PerPage
                THEN EndBranch(list)
                ELSE /\ c_page' = c_page + 1
                     /\ repo_commits' = list
                     /\ UNCHANGED <<c_pc, c_repo, c_branches, c_branch, all_commits,
                                    c_reordered>>
          /\ c_seen' = DictPut(c_seen, CurrentRepo, seen \cup shas)
          /\ IF StopsBeforeLastPage(page) /\ c_unread = <<>>
                THEN c_unread' \in {<<>>} \cup UnreadOfPeriod
                ELSE UNCHANGED c_unread
          /\ c_repeated' = (c_repeated \/ (shas \cap seen) \cup twice # {})
    /\ UNCHANGED <<repositories, c_failed>>
    /\ UNCHANGED nonCommitVars

\* The exception of the page request leaves the method.
CommitsFetchRaises ==
    /\ c_pc = "fetch"
    /\ c_pc' = "raised"
    /\ c_failed' = <<[repository |-> CurrentRepo, commits |-> repo_commits]>>
    /\ UNCHANGED <<repositories, c_repo, c_branches, c_branch, c_page,
                   repo_commits, all_commits, c_seen, c_repeated, c_reordered,
                   c_unread>>
    /\ UNCHANGED nonCommitVars

\* One turn of the while loop: the request raises; except Exception: break.
CommitsFetchFails ==
    /\ c_pc = "fetch"
    /\ EndBranch(repo_commits)
    /\ c_failed' = <<[repository |-> CurrentRepo, commits |-> repo_commits]>>
    /\ UNCHANGED <<repositories, c_seen, c_repeated, c_unread>>
    /\ UNCHANGED nonCommitVars

GetCommits ==
    \/ CommitsGetRepositories
    \/ CommitsGetRepositoriesFails
    \/ CommitsGetAllBranches
    \/ CommitsGetAllBranchesFails
    \/ CommitsFetchPage
    \/ CommitsFetchFails

(***************************************************************************)
(* Pull requests as the platform serves them                               *)
(***************************************************************************)
\* The author of pull request n (platform data): one login the report knows
\* a display name for, one it does not.
PullAuthor(n) == IF n % 2 = 1 THEN "zotho" ELSE "bob"

\* ReportGenerator.username_mapping
UsernameMapping ==
    ("zotho" :> "Svyatoslav") @@ ("akablockchain2" :> "Alexey") @@
    ("khssnv" :> "Alisher") @@ ("Vsevolod-Rusinskiy" :> "Vsevolod") @@
    ("statictype" :> "Andreea")

\* self.username_mapping.get(author, author)
DisplayName(login) ==
    IF login \in DOMAIN UsernameMapping THEN UsernameMapping[login] ELSE login

\* What a comments request can return: nothing, or the one comment `id`.
CommentsServed(id, user) ==
    {<<>>} \cup {<<[id |-> id, user |-> user, created_at |-> t]>> : t \in Times}

\* The comments of both kinds of a pull request.
CommentsOf(pr) == pr.issue_comments \o pr.review_comments

\* Pull request n of a repository.  Nobody comments on a pull request before
\* it exists, and updated_at is not earlier than anything that happened.
PullsNumbered(n) ==
    {pr \in [number : {n}, user : {PullAuthor(n)}, created_at : Times, updated_at : Times,
             issue_comments : CommentsServed(2 * n - 1, "khssnv"),
             review_comments : CommentsServed(2 * n, "bob")] :
        /\ pr.updated_at >= pr.created_at
        /\ \A k \in DOMAIN CommentsOf(pr) :
              /\ CommentsOf(pr)[k].created_at >= pr.created_at
              /\ CommentsOf(pr)[k].created_at <= pr.updated_at}

\* GET /repos/{owner}/{repo}/pulls?state=all&sort=updated&direction=desc:
\* at most max pull requests, the most recently updated first.
PullListings(max) ==
    UNION {{l \in [1..n -> UNION {PullsNumbered(k) : k \in 1..n}] :
               /\ \A k \in 1..n : l[k].number = k
               /\ \A k \in 1..(n - 1) : l[k].updated_at >= l[k + 1].updated_at} :
           n \in 0..max}

(***************************************************************************)
(* GitHubCollector._get_pr_comments / _get_pr_comments_exact               *)
(***************************************************************************)
\* sorted(comments, key=lambda x: x["created_at"]): ascending and stable.
RECURSIVE InsertByCreatedAt(_, _)
InsertByCreatedAt(sorted, x) ==
    IF sorted = <<>> THEN <<x>>
    ELSE IF Head(sorted).created_at <= x.created_at
         THEN <<Head(sorted)>> \o InsertByCreatedAt(Tail(sorted), x)
         ELSE <<x>> \o sorted

RECURSIVE SortByCreatedAt(_)
SortByCreatedAt(list) ==
    IF list = <<>> THEN <<>>
    ELSE InsertByCreatedAt(SortByCreatedAt(SubSeq(list, 1, Len(list) - 1)),
                           list[Len(list)])

\* The dict built for a kept comment; type "" stands for no "type" key.
CommentInfo(comment, type) ==
    [id |-> comment.id, author |-> comment.user,
     created_at |-> comment.created_at, type |-> type]

\* if comment_date >= since_date
PrCommentRecent(comment_date) == comment_date >= SinceDate

\* A range test that leaves out the end of the range.
PrCommentInRangeEndExclusive(comment_date) ==
    StartUtc <= comment_date /\ comment_date < EndUtc

\* if start_time <= comment_date <= end_time
PrCommentInRange(comment_date) ==
    StartUtc <= comment_date /\ comment_date <= EndUtc

\* comments.append({...}) for each comment a loop keeps
CommentInfos(kept, type) == [k \in DOMAIN kept |-> CommentInfo(kept[k], type)]

GetPrComments(pr) ==
    LET Recent(comment) == PrCommentRecent(comment.created_at) IN
    SortByCreatedAt(
        CommentInfos(SelectSeq(pr.issue_comments, Recent), "issue_comment")
        \o CommentInfos(SelectSeq(pr.review_comments, Recent), "review_comment"))

GetPrCommentsExact(pr) ==
    LET InRange(comment) == PrCommentInRange(comment.created_at) IN
    SortByCreatedAt(
        CommentInfos(SelectSeq(pr.issue_comments, InRange), "issue_comment")
        \o CommentInfos(SelectSeq(pr.review_comments, InRange), "review_comment"))

(***************************************************************************)
(* GitHubCollector.get_pull_requests_for_period / ..._for_exact_period     *)
(***************************************************************************)
\* if pr_updated < since_date: continue    (exact: pr_updated < start_utc)
PrSkipped(pr) ==
    IF mode = "rolling" THEN pr.updated_at < SinceDate
                        ELSE pr.updated_at < StartUtc

PrComments(pr) ==
    IF mode = "rolling" THEN GetPrComments(pr) ELSE GetPrCommentsExact(pr)

\* recently_created = pr_created >= since_date
\* recently_created = start_utc <= pr_created <= end_utc
PrRecentlyCreated(pr) ==
    IF mode = "rolling" THEN pr.created_at >= SinceDate
                        ELSE StartUtc <= pr.created_at /\ pr.created_at <= EndUtc

\* A pull request is kept for its comments alone.
PrIncludedForCommentsOnly(comments, recently_created) == comments # <<>>

\* if comments or recently_created
PrIncluded(comments, recently_created) == comments # <<>> \/ recently_created

PrInfo(pr, comments, repo, recently_created) ==
    [number |-> pr.number, author |-> pr.user, created_at |-> pr.created_at,
     updated_at |-> pr.updated_at, comments |-> comments, repository |-> repo,
     recently_created |-> recently_created]

\* for pr in prs_data: ... repo_prs.append(pr_info)
RECURSIVE RepoPrs(_, _)
RepoPrs(prs_data, repo) ==
    IF prs_data = <<>> THEN <<>>
    ELSE LET pr == Head(prs_data)
             comments == PrComments(pr)
             recently_created == PrRecentlyCreated(pr) IN
         (IF ~PrSkipped(pr) /\ PrIncluded(comments, recently_created)
             THEN <<PrInfo(pr, comments, repo, recently_created)>>
             ELSE <<>>)
         \o RepoPrs(Tail(prs_data), repo)

\* The pull requests served so far, over all repositories.
RECURSIVE ServedCount(_, _)
ServedCount(fetched, repos) ==
    IF repos = <<>> THEN 0
    ELSE Len(DictGet(fetched, Head(repos), <<>>)) + ServedCount(fetched, Tail(repos))

\* repositories = self.get_org_repositories() or self.config.repositories
PullsGetRepositories ==
    /\ task = "prs"
    /\ p_pc = "repos"
    /\ \E repos \in (IF cfg_repositories = <<>> THEN RepositoryLists
                                               ELSE {cfg_repositories[1]}) :
          /\ p_repositories' = repos
          /\ p_repo' = IF repos = <<>> THEN 0 ELSE 1
          /\ p_pc' = IF repos = <<>> THEN "done" ELSE "list"
    /\ UNCHANGED <<include_pr_section, p_error, all_prs, p_fetched, report>>
    /\ UNCHANGED nonPullVars

\* get_org_repositories() raises: the method raises.
PullsGetRepositoriesFails ==
    /\ task = "prs"
    /\ p_pc = "repos"
    /\ cfg_repositories = <<>>
    /\ p_pc' = "raised"
    /\ p_error' = "get_org_repositories"
    /\ UNCHANGED <<include_pr_section, p_repositories, p_repo, all_prs,
                   p_fetched, report>>
    /\ UNCHANGED nonPullVars

\* One turn of the loop over repositories: the listing and every comments
\* request of the repository are answered.
PullsCollectRepo ==
    /\ p_pc = "list"
    /\ LET repo == p_repositories[p_repo] IN
       \E prs_data \in PullListings(NumPulls - ServedCount(p_fetched, Repos)) :
          /\ all_prs' = DictPut(all_prs, repo, RepoPrs(prs_data, repo))
          /\ p_fetched' = DictPut(p_fetched, repo, prs_data)
    /\ p_repo' = IF p_repo < Len(p_repositories) THEN p_repo + 1 ELSE p_repo
    /\ p_pc' = IF p_repo < Len(p_repositories) THEN "list" ELSE "done"
    /\ UNCHANGED <<include_pr_section, p_error, p_repositories, report>>
    /\ UNCHANGED nonPullVars

\* The listing request raises: no except, the method raises.
PullsRequestFails ==
    /\ p_pc = "list"
    /\ p_pc' = "raised"
    /\ p_error' = "pulls"
    /\ UNCHANGED <<include_pr_section, p_repositories, p_repo, all_prs,
                   p_fetched, report>>
    /\ UNCHANGED nonPullVars

\* The listing holds a pull request whose comments are asked for, and one of
\* its two comments requests raises (_make_request, raise_for_status): there
\* is no except on the way, the method raises.
PullsCommentsFail ==
    /\ p_pc = "list"
    /\ \E prs_data \in PullListings(NumPulls - ServedCount(p_fetched, Repos)) :
          \E k \in DOMAIN prs_data : ~PrSkipped(prs_data[k])
    /\ p_pc' = "raised"
    /\ p_error' = "comments"
    /\ UNCHANGED <<include_pr_section, p_repositories, p_repo, all_prs,
                   p_fetched, report>>
    /\ UNCHANGED nonPullVars

(***************************************************************************)
(* ReportGenerator._generate_prs_section and generate_report               *)
(* The report is a sequence of lines; a line keeps what it is (kind), the  *)
(* repository and number (or comment id) it is about, and the name it      *)
(* shows.  Titles, urls and comment bodies are not modelled.               *)
(***************************************************************************)
Line(line_kind, repo, ref, name) ==
    [kind |-> line_kind, repo |-> repo, ref |-> ref, name |-> name]

\* section += f"**{author_real_name}:** {comment_text}\n\n", per comment
PrCommentLines(pr) ==
    [k \in DOMAIN pr.comments |->
        Line("comment", pr.repository, pr.comments[k].id,
             DisplayName(pr.comments[k].author))]

\* The section of one pull request; <<>> when the loop skips it.
PrSection(pr) ==
    IF pr.recently_created /\ pr.comments = <<>>
       THEN <<Line("pr_title", pr.repository, pr.number, ""),
              Line("sent_to_review", pr.repository, pr.number,
                   DisplayName(pr.author))>>
       ELSE IF pr.comments # <<>>
               THEN <<Line("pr_title", pr.repository, pr.number, "")>>
                    \o PrCommentLines(pr)
               ELSE <<>>

RECURSIVE PrSections(_)
PrSections(prs) ==
    IF prs = <<>> THEN <<>>
    ELSE PrSection(Head(prs)) \o PrSections(Tail(prs))

\* for repo, prs in prs_data.items(): a dict iterates in insertion order.
RECURSIVE GeneratePrsSectionOver(_, _)
GeneratePrsSectionOver(repos, prs_data) ==
    IF repos = <<>> THEN <<>>
    ELSE (IF Head(repos) \in DOMAIN prs_data
             THEN PrSections(prs_data[Head(repos)])
             ELSE <<>>)
         \o GeneratePrsSectionOver(Tail(repos), prs_data)

GeneratePrsSection(repos, prs_data) ==
    IF \A repo \in DOMAIN prs_data : prs_data[repo] = <<>>
       THEN <<>>
       ELSE GeneratePrsSectionOver(repos, prs_data)

\* generate_report(commits_data, prs_data, issues_data) with no commits and
\* no issues: the title, "## Commits: 0", a rule, and the pull request
\* section when there is one and the setting asks for it.
GenerateReport(repos, prs_data) ==
    LET prs_section == GeneratePrsSection(repos, prs_data) IN
    <<Line("report_title", "", 0, ""), Line("commits", "", 0, ""),
      Line("rule", "", 0, "")>>
    \o (IF prs_section # <<>> /\ include_pr_section
           THEN <<Line("pull_requests", "", 0, "")>> \o prs_section
                \o <<Line("rule", "", 0, "")>>
           ELSE <<>>)

\* report = generator.generate_report({}, prs_data, {})
PullsGenerateReport ==
    /\ p_pc = "done"
    /\ report' = GenerateReport(p_repositories, all_prs)
    /\ p_pc' = "reported"
    /\ UNCHANGED <<include_pr_section, p_error, p_repositories, p_repo, all_prs, p_fetched>>
    /\ UNCHANGED nonPullVars

GetPullRequests ==
    \/ PullsGetRepositories
    \/ PullsGetRepositoriesFails
    \/ PullsCollectRepo
    \/ PullsRequestFails
    \/ PullsCommentsFail
    \/ PullsGenerateReport

(***************************************************************************)
(* Issues as the platform serves them                                      *)
(***************************************************************************)
\* What the comments request of issue n can return: up to two comments.
IssueCommentsServed(n) ==
    LET first(t) == [id |-> 2 * n - 1, user |-> "khssnv", created_at |-> t]
        second(t) == [id |-> 2 * n, user |-> "bob", created_at |-> t] IN
    {<<>>} \cup {<<first(t)>> : t \in Times}
           \cup {<<first(t[1]), second(t[2])>> : t \in Times \X Times}

\* Item n of a listing, an issue of repository repo.  The issues API lists
\* pull requests too (key "pull_request"); the project scan returns issues
\* only.  updated_at is not earlier than any comment.
IssuesNumbered(n, repo, with_pulls) ==
    {issue \in [number : {n}, repository : {repo},
                is_pull_request : IF with_pulls THEN BOOLEAN ELSE {FALSE},
                updated_at : Times, comments : IssueCommentsServed(n)] :
        /\ \A k \in DOMAIN issue.comments :
              issue.comments[k].created_at <= issue.updated_at
        /\ issue.is_pull_request => issue.comments = <<>>}

\* GET /repos/{owner}/{repo}/issues?state=all&sort=updated&direction=desc
IssueListings(max, repo) ==
    UNION {{l \in [1..n -> UNION {IssuesNumbered(k, repo, TRUE) : k \in 1..n}] :
               /\ \A k \in 1..n : l[k].number = k
               /\ \A k \in 1..(n - 1) : l[k].updated_at >= l[k + 1].updated_at} :
           n \in 0..max}

\* What get_project_issues_in_columns returns for the project, extended by
\* what it returns for the incident project: issues of any repository.
ProjectIssueLists(max) ==
    UNION {{l \in [1..n -> UNION {IssuesNumbered(k, repo, FALSE) :
                                     k \in 1..n, repo \in {Repos[x] : x \in DOMAIN Repos}}] :
               \A k \in 1..n : l[k].number = k} :
           n \in 0..max}

(***************************************************************************)
(* GitHubCollector._get_issue_comments / _get_issue_comments_exact         *)
(***************************************************************************)
\* if comment_date >= since_date
IssueCommentRecent(comment_date) == comment_date >= SinceDate

\* if start_time <= comment_date <= end_time
IssueCommentInRange(comment_date) ==
    StartUtc <= comment_date /\ comment_date <= EndUtc

GetIssueComments(issue) ==
    LET Recent(comment) == IssueCommentRecent(comment.created_at) IN
    SortByCreatedAt(CommentInfos(SelectSeq(issue.comments, Recent), ""))

GetIssueCommentsExact(issue) ==
    LET InRange(comment) == IssueCommentInRange(comment.created_at) IN
    SortByCreatedAt(CommentInfos(SelectSeq(issue.comments, InRange), ""))

(***************************************************************************)
(* GitHubCollector.get_issues_for_period / get_issues_for_exact_period     *)
(***************************************************************************)
\* if issue_updated < since_date: continue   (exact: issue_updated < start_utc)
IssueSkipped(issue) ==
    IF mode = "rolling" THEN issue.updated_at < SinceDate
                        ELSE issue.updated_at < StartUtc

IssueComments(issue) ==
    IF mode = "rolling" THEN GetIssueComments(issue)
                        ELSE GetIssueCommentsExact(issue)

\* The kept issue: labels, assignees, title, url and state are not modelled.
IssueInfo(issue, comments) ==
    [number |-> issue.number, repository |-> issue.repository,
     updated_at |-> issue.updated_at, comments |-> comments]

\* for issue in issues_data: ... repo_issues.append(issue_info)
RECURSIVE RepoIssues(_)
RepoIssues(issues_data) ==
    IF issues_data = <<>> THEN <<>>
    ELSE LET issue == Head(issues_data)
             comments == IssueComments(issue) IN
         (IF ~issue.is_pull_request /\ ~IssueSkipped(issue) /\ comments # <<>>
             THEN <<IssueInfo(issue, comments)>>
             ELSE <<>>)
         \o RepoIssues(Tail(issues_data))

\* for issue in project_issues: ... all_issues[repo].append(issue)
RECURSIVE GroupProjectIssues(_, _)
GroupProjectIssues(grouped, project_issues) ==
    IF project_issues = <<>> THEN grouped
    ELSE LET issue == Head(project_issues)
             comments == IssueComments(issue)
             repo == issue.repository IN
         GroupProjectIssues(
             IF ~IssueSkipped(issue) /\ comments # <<>>
                THEN DictPut(grouped, repo,
                             Append(DictGet(grouped, repo, <<>>),
                                    IssueInfo(issue, comments)))
                ELSE grouped,
             Tail(project_issues))

\* The project path: the scan of the project columns (which swallows its own
\* failures) and every comments request are answered.  With
\* config.incident_project_number set the list is extended by the scan of
\* the incident project, which holds none or all of the same issues.
IssuesCollectProject ==
    /\ task = "issues"
    /\ i_pc = "project"
    /\ \E project_issues \in ProjectIssueLists(NumListed) :
          \E incident_issues \in {<<>>, project_issues} :
             /\ all_issues' = GroupProjectIssues(<<>>, project_issues \o incident_issues)
             /\ i_fetched' = project_issues \o incident_issues
    /\ i_pc' = "done"
    /\ UNCHANGED <<project_configured, include_case_sections, i_report, i_error, i_repositories, i_repo>>
    /\ UNCHANGED nonIssueVars

\* The project path: an issue of the scan was updated in the period and its
\* comments request raises; there is no except on the way, the method raises.
IssuesProjectRequestFails ==
    /\ task = "issues"
    /\ i_pc = "project"
    /\ \E project_issues \in ProjectIssueLists(NumListed) :
          \E k \in DOMAIN project_issues : ~IssueSkipped(project_issues[k])
    /\ i_pc' = "raised"
    /\ i_error' = "comments"
    /\ UNCHANGED <<project_configured, include_case_sections, i_report, i_repositories, i_repo, all_issues, i_fetched>>
    /\ UNCHANGED nonIssueVars

\* repositories = self.get_org_repositories() or self.config.repositories
IssuesGetRepositories ==
    /\ task = "issues"
    /\ i_pc = "repos"
    /\ \E repos \in (IF cfg_repositories = <<>> THEN RepositoryLists
                                               ELSE {cfg_repositories[1]}) :
          /\ i_repositories' = repos
          /\ i_repo' = IF repos = <<>> THEN 0 ELSE 1
          /\ i_pc' = IF repos = <<>> THEN "done" ELSE "list"
    /\ UNCHANGED <<project_configured, include_case_sections, i_report, i_error, all_issues, i_fetched>>
    /\ UNCHANGED nonIssueVars

\* get_org_repositories() raises: the method raises.
IssuesGetRepositoriesFails ==
    /\ task = "issues"
    /\ i_pc = "repos"
    /\ cfg_repositories = <<>>
    /\ i_pc' = "raised"
    /\ i_error' = "get_org_repositories"
    /\ UNCHANGED <<project_configured, include_case_sections, i_report, i_repositories, i_repo, all_issues, i_fetched>>
    /\ UNCHANGED nonIssueVars

\* One turn of the loop over repositories: the listing and every comments
\* request of the repository are answered.
IssuesCollectRepo ==
    /\ i_pc = "list"
    /\ LET repo == i_repositories[i_repo] IN
       \E issues_data \in IssueListings(NumListed - Len(i_fetched), repo) :
          /\ all_issues' = DictPut(all_issues, repo, RepoIssues(issues_data))
          /\ i_fetched' = i_fetched \o issues_data
    /\ i_repo' = IF i_repo < Len(i_repositories) THEN i_repo + 1 ELSE i_repo
    /\ i_pc' = IF i_repo < Len(i_repositories) THEN "list" ELSE "done"
    /\ UNCHANGED <<project_configured, include_case_sections, i_report, i_error, i_repositories>>
    /\ UNCHANGED nonIssueVars

\* The listing request raises: no except, the method raises.
IssuesRequestFails ==
    /\ i_pc = "list"
    /\ i_pc' = "raised"
    /\ i_error' = "issues"
    /\ UNCHANGED <<project_configured, include_case_sections, i_report, i_repositories, i_repo, all_issues, i_fetched>>
    /\ UNCHANGED nonIssueVars

\* The listing holds an issue whose comments are asked for, and the comments
\* request raises: there is no except on the way, the method raises.
IssuesCommentsFail ==
    /\ i_pc = "list"
    /\ \E issues_data \in IssueListings(NumListed - Len(i_fetched),
                                        i_repositories[i_repo]) :
          \E k \in DOMAIN issues_data :
             ~issues_data[k].is_pull_request /\ ~IssueSkipped(issues_data[k])
    /\ i_pc' = "raised"
    /\ i_error' = "comments"
    /\ UNCHANGED <<project_configured, include_case_sections, i_report, i_repositories, i_repo, all_issues, i_fetched>>
    /\ UNCHANGED nonIssueVars

(***************************************************************************)
(* ReportGenerator._generate_issues_section and generate_report            *)
(***************************************************************************)
\* The collected issue as find_case_parent reads it: the dict has no "type"
\* key, its labels are the names (strings), its url is the issue's.
CollectedIssueDict(issue) ==
    [number     |-> issue.number,
     title      |-> issue.number,
     url        |-> issue.number,
     type       |-> "",
     labels     |-> [k \in DOMAIN LabelNamesOfKind(kind[issue.number]) |->
                        [shape |-> "str",
                         name |-> LabelNamesOfKind(kind[issue.number])[k]]],
     comments   |-> issue.comments,
     repository |-> issue.repository]

\* collector.find_case_parent(issue), every parent request being answered
\* (200 with the parent, 404 without one).
RECURSIVE CaseParentOf(_, _)
CaseParentOf(issue, max_depth) ==
    IF max_depth <= 0 THEN <<>>
    ELSE IF IsCaseIssue(issue) THEN <<issue>>
    ELSE IF ~UrlHasIssueShape(issue.url) \/ parent_of[issue.url] = 0 THEN <<>>
    ELSE LET data == IssueJson(parent_of[issue.url]) IN
         IF ParentIsCase(data) THEN <<ParentProjection(data)>>
         ELSE CaseParentOf(ParentProjection(data), RecursiveDepth(max_depth))

\* case_key = f"[{case_name}]({case_url})"
CaseKey(parent_case) == <<parent_case.title, parent_case.url>>

\* cases[case_key].append(issue): cases is a dict, kept here as the sequence
\* of its items in insertion order.
AppendToCase(cases, case_key, issue) ==
    IF \E k \in DOMAIN cases : cases[k].key = case_key
       THEN [k \in DOMAIN cases |->
                IF cases[k].key = case_key
                   THEN [cases[k] EXCEPT !.issues = Append(@, issue)]
                   ELSE cases[k]]
       ELSE Append(cases, [key |-> case_key, issues |-> <<issue>>])

\* for issue in issues: ... if parent_case: cases[case_key].append(issue)
RECURSIVE GroupByCase(_, _)
GroupByCase(cases, issues) ==
    IF issues = <<>> THEN cases
    ELSE LET issue == Head(issues)
             parent_case == CaseParentOf(CollectedIssueDict(issue), DefaultMaxDepth) IN
         GroupByCase(IF issue.comments # <<>> /\ parent_case # <<>>
                        THEN AppendToCase(cases, CaseKey(parent_case[1]), issue)
                        ELSE cases,
                     Tail(issues))

\* for repo, issues in issues_data.items()
RECURSIVE GroupByCaseOver(_, _, _)
GroupByCaseOver(repos, issues_data, cases) ==
    IF repos = <<>> THEN cases
    ELSE GroupByCaseOver(Tail(repos), issues_data,
                         IF Head(repos) \in DOMAIN issues_data
                            THEN GroupByCase(cases, issues_data[Head(repos)])
                            ELSE cases)

\* "### [title](url)" and one line per comment of the issue
RECURSIVE IssueLines(_)
IssueLines(case_issues) ==
    IF case_issues = <<>> THEN <<>>
    ELSE LET issue == Head(case_issues) IN
         <<Line("issue", issue.repository, issue.number, "")>>
         \o [k \in DOMAIN issue.comments |->
                Line("issue_comment", issue.repository, issue.comments[k].id,
                     DisplayName(issue.comments[k].author))]
         \o IssueLines(Tail(case_issues))

\* "## Case: {case_key}", its issues, "---"
RECURSIVE CaseSections(_)
CaseSections(cases) ==
    IF cases = <<>> THEN <<>>
    ELSE <<Line("case", "", Head(cases).key[2], "")>>
         \o IssueLines(Head(cases).issues)
         \o <<Line("rule", "", 0, "")>>
         \o CaseSections(Tail(cases))

GenerateIssuesSection(repos, issues_data) ==
    IF \A repo \in DOMAIN issues_data : issues_data[repo] = <<>>
       THEN <<>>
       ELSE CaseSections(GroupByCaseOver(repos, issues_data, <<>>))

\* generate_report({}, {}, issues_data): the title, "## Commits: 0", a rule,
\* and the Case sections when there are any and the setting asks for them.
GenerateIssuesReport(repos, issues_data) ==
    LET issues_section == GenerateIssuesSection(repos, issues_data) IN
    <<Line("report_title", "", 0, ""), Line("commits", "", 0, ""),
      Line("rule", "", 0, "")>>
    \o (IF issues_section # <<>> /\ include_case_sections
           THEN issues_section ELSE <<>>)

\* The repositories of the issues of a list, each once, in the order of
\* their first issue: the order the project path inserts the keys in.
RECURSIVE FirstSeenRepos(_, _)
FirstSeenRepos(issues, seen) ==
    IF issues = <<>> THEN seen
    ELSE FirstSeenRepos(Tail(issues),
                        IF \E k \in DOMAIN seen : seen[k] = Head(issues).repository
                           THEN seen ELSE Append(seen, Head(issues).repository))

\* The keys of all_issues in insertion order.
IssueReposInOrder ==
    IF project_configured THEN FirstSeenRepos(i_fetched, <<>>) ELSE i_repositories

\* report = generator.generate_report({}, {}, issues_data)
IssuesGenerateReport ==
    /\ i_pc = "done"
    /\ i_report' = GenerateIssuesReport(IssueReposInOrder, all_issues)
    /\ i_pc' = "reported"
    /\ UNCHANGED <<project_configured, include_case_sections, i_error,
                   i_repositories, i_repo, all_issues, i_fetched>>
    /\ UNCHANGED nonIssueVars

GetIssues ==
    \/ IssuesCollectProject
    \/ IssuesProjectRequestFails
    \/ IssuesGetRepositories
    \/ IssuesGetRepositoriesFails
    \/ IssuesCollectRepo
    \/ IssuesRequestFails
    \/ IssuesCommentsFail
    \/ IssuesGenerateReport

(***************************************************************************)
(* ReportGenerator._format_comment                                         *)
(* A text is a sequence of runs [ch, n]: the character ch repeated n >= 1  *)
(* times.  The characters are a letter, the newline and the space.         *)
(***************************************************************************)
Newline == "\n"
Chars == {"a", Newline, " "}

\* max_length = 500
MaxLength == 500

\* The lengths of the runs the platform's bodies are made of.
RunLengths == {1, 2, MaxLength - 2, MaxLength}

Run(ch, n) == [ch |-> ch, n |-> n]

\* The bodies the platform serves: up to MaxRuns runs.
Bodies ==
    UNION {[1..k -> {Run(ch, n) : ch \in Chars, n \in RunLengths}] : k \in 0..MaxRuns}

\* What \s matches, and what strip() removes.
IsSpace(ch) == ch \in {Newline, " "}

\* len(text)
RECURSIVE TextLen(_)
TextLen(text) ==
    IF text = <<>> THEN 0 ELSE Head(text).n + TextLen(Tail(text))

\* text[:count]
RECURSIVE Prefix(_, _)
Prefix(text, count) ==
    IF text = <<>> \/ count <= 0 THEN <<>>
    ELSE IF Head(text).n <= count
         THEN <<Head(text)>> \o Prefix(Tail(text), count - Head(text).n)
         ELSE <<Run(Head(text).ch, count)>>

\* The number of leading runs of white space.
RECURSIVE LeadingSpace(_)
LeadingSpace(text) ==
    IF text = <<>> \/ ~IsSpace(Head(text).ch) THEN 0
    ELSE 1 + LeadingSpace(Tail(text))

Reverse(text) == [k \in 1..Len(text) |-> text[Len(text) + 1 - k]]

\* comment_body.strip()
Strip(text) ==
    LET left == SubSeq(text, LeadingSpace(text) + 1, Len(text)) IN
    SubSeq(left, 1, Len(left) - LeadingSpace(Reverse(left)))

\* re.sub(r'\n\s*\n', '\n\n', ...) on a maximal stretch of white space: the
\* match starts at its first newline and, \s* being greedy, ends at its
\* last one; with fewer than two newlines nothing matches.
CollapseStretch(stretch) ==
    LET lines == {k \in DOMAIN stretch : stretch[k].ch = Newline}
        count == TextLen(SelectSeq(stretch, LAMBDA run : run.ch = Newline))
        first == CHOOSE k \in lines : \A j \in lines : k <= j
        last == CHOOSE k \in lines : \A j \in lines : k >= j IN
    IF count < 2 THEN stretch
    ELSE SubSeq(stretch, 1, first - 1) \o <<Run(Newline, 2)>>
         \o SubSeq(stretch, last + 1, Len(stretch))

\* re.sub(r'\n\s*\n', '\n\n', text)
RECURSIVE CollapseBlankLines(_)
CollapseBlankLines(text) ==
    IF text = <<>> THEN <<>>
    ELSE IF ~IsSpace(Head(text).ch)
         THEN <<Head(text)>> \o CollapseBlankLines(Tail(text))
         ELSE LET k == LeadingSpace(text) IN
              CollapseStretch(SubSeq(text, 1, k))
              \o CollapseBlankLines(SubSeq(text, k + 1, Len(text)))

Ellipsis == <<Run(".", 3)>>

\* A cut that adds no "...".
TruncateBare(comment) == Prefix(comment, MaxLength)

\* comment[:max_length] + "..."
Truncate(comment) == Prefix(comment, MaxLength) \o Ellipsis

\* _format_comment(comment_body)
FormatComment(comment_body) ==
    LET comment == CollapseBlankLines(Strip(comment_body)) IN
    IF TextLen(comment) > MaxLength THEN Truncate(comment) ELSE comment

\* _get_issue_comments: "body": comment["body"]
CollectedBody(comment) == comment.body

\* The collector takes the comment into its record.
CollectComment ==
    /\ f_pc = "served"
    /\ f_body' = CollectedBody([body |-> f_served])
    /\ f_pc' = "collected"
    /\ UNCHANGED <<f_served, f_rendered>>
    /\ UNCHANGED nonFormatVars

\* The report generator renders the collected comment.
RenderComment ==
    /\ f_pc = "collected"
    /\ f_rendered' = FormatComment(f_body)
    /\ f_pc' = "rendered"
    /\ UNCHANGED <<f_served, f_body>>
    /\ UNCHANGED nonFormatVars

(***************************************************************************)
(* The scan of a project's items: GitHubCollector.                         *)
(* get_project_issues_in_columns, and get_items_with_status and            *)
(* get_incidents of the legacy script src/main.py.                         *)
(* An item of a project keeps the type of its content, its number (its     *)
(* position in the project) and its single-select field values in the      *)
(* order the platform lists them.                                          *)
(***************************************************************************)
\* config.columns / COLUMN_NAMES: the allow-list.
Columns == {"In Progress"}

\* The option names of the single-select fields.
OptionNames == {"In Progress", "Done"}

FieldValue(field, name) == [field |-> field, name |-> name]

\* The field values of an item: no Status; a Status; a Status and, before
\* or after it, the field Stage holding an allow-listed name.
FieldValueLists ==
    {<<>>}
    \cup {<<FieldValue("Status", name)>> : name \in OptionNames}
    \cup {<<FieldValue("Status", name), FieldValue("Stage", "In Progress")>> :
             name \in OptionNames}
    \cup {<<FieldValue("Stage", "In Progress"), FieldValue("Status", name)>> :
             name \in OptionNames}

ContentTypes == {"Issue", "PullRequest"}

\* The projects of up to MaxItems items.
Projects ==
    UNION {[1..n -> [content : ContentTypes, fieldValues : FieldValueLists]] :
              n \in 0..MaxItems}

\* The page the platform serves after `cursor` pages of `first` items.
ProjectPage(items, cursor) ==
    SubSeq(items, cursor * First + 1,
           IF (cursor + 1) * First < Len(items) THEN (cursor + 1) * First
                                                ELSE Len(items))

\* pageInfo.hasNextPage of that page.
HasNextPage(items, cursor) == (cursor + 1) * First < Len(items)

\* The Status of an item as the collector reads it: the name of the first
\* field value whose field is named "Status", None without one.
RECURSIVE ItemColumn(_)
ItemColumn(fieldValues) ==
    IF fieldValues = <<>> THEN <<>>
    ELSE IF Head(fieldValues).field = "Status" THEN <<Head(fieldValues).name>>
    ELSE ItemColumn(Tail(fieldValues))

\* The status as get_items_with_status reads it: the query asks for no field
\* name, and the loop keeps the name of the last value that has one.
LegacyStatus(fieldValues) ==
    IF fieldValues = <<>> THEN <<>>
    ELSE <<fieldValues[Len(fieldValues)].name>>

\* if not content: continue -- the query selects fields of an Issue only, so
\* the content of anything else is empty.
HasIssueContent(item) == item.content = "Issue"

\* Whether the scan appends the item.
ScanKeeps(variant, item) ==
    CASE variant = "collector" ->
            /\ HasIssueContent(item)
            /\ ItemColumn(item.fieldValues) # <<>>
            /\ ItemColumn(item.fieldValues)[1] \in Columns
      [] variant = "legacy" ->
            /\ LegacyStatus(item.fieldValues) # <<>>
            /\ LegacyStatus(item.fieldValues)[1] \in Columns
            /\ HasIssueContent(item)
      [] OTHER -> HasIssueContent(item)

\* What the scan appends for item number `number`.
ScannedIssue(variant, item, number) ==
    [number |-> number,
     project_column |-> IF variant = "collector"
                           THEN ItemColumn(item.fieldValues)[1] ELSE ""]

\* for item in items["nodes"]: ... project_issues.append(issue_data)
RECURSIVE ScanNodes(_, _, _, _)
ScanNodes(variant, nodes, offset, list) ==
    IF nodes = <<>> THEN list
    ELSE ScanNodes(variant, Tail(nodes), offset + 1,
                   IF ScanKeeps(variant, Head(nodes))
                      THEN Append(list, ScannedIssue(variant, Head(nodes), offset + 1))
                      ELSE list)

\* One turn of the while loop: the page arrives.
ScanPage ==
    /\ s_pc = "scan"
    /\ s_project # <<>>
    /\ s_items' = ScanNodes(s_variant, ProjectPage(s_project[1], s_cursor),
                            s_cursor * First, s_items)
    /\ s_cursor' = s_cursor + 1
    /\ s_pc' = IF HasNextPage(s_project[1], s_cursor) THEN "scan" ELSE "returned"
    /\ UNCHANGED <<s_variant, s_project, s_failed>>
    /\ UNCHANGED nonScanVars

\* The organization has no such project.  The collector breaks out of the
\* loop and returns its list (if not ...get("projectV2"): break); the legacy
\* script raises from get_project_id_by_number.
ScanProjectMissing ==
    /\ s_pc = "scan"
    /\ s_project = <<>>
    /\ s_pc' = IF s_variant = "collector" THEN "returned" ELSE "raised"
    /\ UNCHANGED <<s_variant, s_project, s_cursor, s_items, s_failed>>
    /\ UNCHANGED nonScanVars

\* The query of a page fails (_make_graphql_request / run_query raise on an
\* HTTP error and on an "errors" list).  The collector catches it, breaks and
\* returns what it has; the legacy functions let it through.
ScanPageFails ==
    /\ s_pc = "scan"
    /\ s_failed' = TRUE
    /\ s_pc' = IF s_variant = "collector" THEN "returned" ELSE "raised"
    /\ UNCHANGED <<s_variant, s_project, s_cursor, s_items>>
    /\ UNCHANGED nonScanVars

\* main() of the legacy script wraps the incident lookup in try/except:
\* it prints the error and goes on with incidents = [].
LegacyMainCatchesIncidents ==
    /\ s_pc = "raised"
    /\ s_variant = "incidents"
    /\ s_items' = <<>>
    /\ s_pc' = "continued"
    /\ UNCHANGED <<s_variant, s_project, s_cursor, s_failed>>
    /\ UNCHANGED nonScanVars

(***************************************************************************)
(* collect_recent_comments_and_prs, find_case_parent and                   *)
(* is_pr_sent_for_review_recently of the legacy script src/main.py.        *)
(* Issues and incidents are the records of the listings above; a pull      *)
(* request keeps its number and the createdAt of the events of its         *)
(* REVIEW_REQUESTED_EVENT timeline.                                        *)
(***************************************************************************)
\* YESTERDAY = datetime.now(timezone.utc) - timedelta(days=1)
Yesterday == now - DayLength

\* The timelines of a pull request: no event, one at the cutoff, one after
\* it, or both.
Timelines ==
    {<<>>, <<Yesterday>>, <<Yesterday + 1>>, <<Yesterday, Yesterday + 1>>}

\* What get_all_org_prs() returns: up to MaxPrs pull requests.
LegacyPrLists ==
    UNION {[1..n -> [number : 1..MaxPrs, events : Timelines]] : n \in 0..MaxPrs}

\* What get_items_with_status() and get_incidents() return.
LegacyIssueLists ==
    UNION {{l \in [1..n -> UNION {IssuesNumbered(k, Repos[1], FALSE) : k \in 1..n}] :
               \A k \in 1..n : l[k].number = k} :
           n \in 0..NumListed}

\* find_case_parent(issue) for an issue that is no Case itself (a project
\* item carries neither type nor labels), every parent request being
\* answered.  There is no depth bound: on a chain that never ends the
\* recursion runs into the interpreter's limit, RecursionError.  `fuel` is
\* the number of parents a chain that ends can have.
RECURSIVE LegacyFindCaseParent(_, _)
LegacyFindCaseParent(url, fuel) ==
    IF parent_of[url] = 0 THEN [outcome |-> "None", case |-> <<>>]
    ELSE IF ParentIsCase(IssueJson(parent_of[url]))
            THEN [outcome |-> "case",
                  case |-> <<ParentProjection(IssueJson(parent_of[url]))>>]
    ELSE IF fuel = 0 THEN [outcome |-> "RecursionError", case |-> <<>>]
    ELSE LegacyFindCaseParent(parent_of[url], fuel - 1)

\* The recent comments of one item, each with its Case reference:
\* case_parent = find_case_parent(item) or {"title": None, "url": None}
ItemRecentComments(item) ==
    LET case_parent == LegacyFindCaseParent(item.number, NumIssues).case
        Recent(comment) == comment.created_at > Yesterday
        recent == SelectSeq(item.comments, Recent) IN
    [k \in DOMAIN recent |->
        [issue_url |-> item.number, id |-> recent[k].id,
         case_url |-> IF case_parent = <<>> THEN <<>> ELSE <<case_parent[1].url>>,
         case_title |-> IF case_parent = <<>> THEN <<>> ELSE <<case_parent[1].title>>]]

\* for item in issues: ... recent_comments.append(...)
RECURSIVE LegacyRecentComments(_)
LegacyRecentComments(issues) ==
    IF issues = <<>> THEN <<>>
    ELSE ItemRecentComments(Head(issues)) \o LegacyRecentComments(Tail(issues))

\* A check that looks at the first event of the timeline only.
FirstEventRecent(pr) == pr.events # <<>> /\ pr.events[1] > Yesterday

\* is_pr_sent_for_review_recently(pr)
IsPrSentForReviewRecently(pr) ==
    \E k \in DOMAIN pr.events : pr.events[k] > Yesterday

\* for pr in all_prs: if is_pr_sent_for_review_recently(pr): recent_prs.append
LegacyRecentPrs(prs) ==
    LET Sent(pr) == IsPrSentForReviewRecently(pr)
        sent == SelectSeq(prs, Sent) IN
    [k \in DOMAIN sent |-> [pr_number |-> sent[k].number]]

\* has_recent_activity as the count of recent comments alone.
HasRecentComment(incident) ==
    \E k \in DOMAIN incident.comments : incident.comments[k].created_at > Yesterday

\* has_recent_activity: a recent comment, or updated_at > YESTERDAY
HasRecentActivity(incident) ==
    \/ \E k \in DOMAIN incident.comments : incident.comments[k].created_at > Yesterday
    \/ incident.updated_at > Yesterday

\* The dict appended for an incident.
IncidentInfo(incident) ==
    LET Recent(comment) == comment.created_at > Yesterday IN
    [incident_number |-> incident.number,
     comments |-> [k \in DOMAIN incident.comments |->
                      [id |-> incident.comments[k].id,
                       is_recent |-> Recent(incident.comments[k])]],
     recent_comments_count |-> Len(SelectSeq(incident.comments, Recent))]

\* for incident in incidents: ... recent_incidents.append(...)
LegacyRecentIncidents(incidents) ==
    LET Active(incident) == HasRecentActivity(incident)
        active == SelectSeq(incidents, Active) IN
    [k \in DOMAIN active |-> IncidentInfo(active[k])]

\* Some item's parent chain never ends.
LegacyRecursionError(issues) ==
    \E k \in DOMAIN issues :
       LegacyFindCaseParent(issues[k].number, NumIssues).outcome = "RecursionError"

\* collect_recent_comments_and_prs(issues, all_prs, incidents) returns.
LegacyCollect ==
    /\ l_pc = "call"
    /\ ~LegacyRecursionError(l_issues)
    /\ recent_comments' = LegacyRecentComments(l_issues)
    /\ recent_prs' = LegacyRecentPrs(l_all_prs)
    /\ recent_incidents' = LegacyRecentIncidents(l_incidents)
    /\ l_pc' = "returned"
    /\ UNCHANGED <<l_issues, l_all_prs, l_incidents>>
    /\ UNCHANGED nonLegacyVars

\* find_case_parent never returns for some item: the RecursionError leaves
\* collect_recent_comments_and_prs and main(), nothing catches it.
LegacyCollectRaises ==
    /\ l_pc = "call"
    /\ LegacyRecursionError(l_issues)
    /\ l_pc' = "raised"
    /\ UNCHANGED <<l_issues, l_all_prs, l_incidents, recent_comments, recent_prs,
                   recent_incidents>>
    /\ UNCHANGED nonLegacyVars

(***************************************************************************)
(* Config.__init__ and Config._validate_config                             *)
(***************************************************************************)
\* The attributes Config.__init__ sets.
ConfigAttributes ==
    {"settings", "github_token", "github_org", "github_owner", "repositories",
     "team_members", "project_number", "incident_project_number", "columns",
     "report_days_back", "output_directory", "report_filename_prefix",
     "telegram_bot_token", "telegram_chat_id"}

\* The attributes of the config send_to_zulip reads.
ZulipAttributes == {"zulip_email", "zulip_key", "zulip_stream", "zulip_topic"}

\* A validation that asks for the token only.
ValidateConfigTokenOnly(token, org, owner) ==
    IF ~token THEN "MY_GH_TOKEN is required" ELSE ""

\* The message of the ValueError _validate_config raises, "" when it returns.
ValidateConfig(token, org, owner) ==
    IF ~token THEN "MY_GH_TOKEN is required"
    ELSE IF ~(org \/ owner) THEN "MY_GH_ORG or MY_GH_OWNER is required"
    ELSE ""

\* self.repositories = None: the repository list is looked up on demand.
RepositoriesDynamic == has_org

(***************************************************************************)
(* main() of src/src/main.py                                               *)
(***************************************************************************)
\* except Exception: sys.exit(1), or the sys.exit(1) of the time parser
ExitWithError(step) ==
    /\ m_pc' = "exit"
    /\ exit_code' = 1
    /\ m_error' = step

\* A test that takes either of the two options for the exact range.
RunModeAnyTime == IF arg_time \in {"valid", "partial"} THEN "exact" ELSE "rolling"

\* if start_time and end_time: both were given and parsed (lines 40, 72)
RunMode == IF arg_time = "valid" THEN "exact" ELSE "rolling"

AfterCollection(step) ==
    IF step = "commits" THEN "prs"
    ELSE IF step = "prs" THEN "issues"
    ELSE "generate"

\* The collection at `step` asks for the repository list.
LooksUpRepositories(step) ==
    RepositoriesDynamic /\ ~(step = "issues" /\ project_configured)

\* lines 35-57
MainParseArgs ==
    /\ m_pc = "args"
    /\ IF arg_time = "malformed"
          THEN ExitWithError("parse_time")
          ELSE /\ m_pc' = "config"
               /\ UNCHANGED <<exit_code, m_error>>
    /\ UNCHANGED <<m_modes, file_saved, m_network, m_lookup_failed,
                   telegram_result, zulip_result>>
    /\ UNCHANGED nonMainVars

\* config = Config()
MainLoadConfig ==
    /\ m_pc = "config"
    /\ IF ValidateConfig(has_token, has_org, has_owner) # ""
          THEN ExitWithError("Config")
          ELSE /\ m_pc' = "commits"
               /\ UNCHANGED <<exit_code, m_error>>
    /\ UNCHANGED <<m_modes, file_saved, m_network, m_lookup_failed,
                   telegram_result, zulip_result>>
    /\ UNCHANGED nonMainVars

\* One of the three collector calls returns.  With a configured repository
\* list that is empty it issues no request.
MainCollect ==
    /\ m_pc \in {"commits", "prs", "issues"}
    /\ m_pc' = AfterCollection(m_pc)
    /\ m_modes' = Append(m_modes, RunMode)
    /\ \E requested \in BOOLEAN :
          m_network' = (m_network \/ requested \/ LooksUpRepositories(m_pc)
                                  \/ (m_pc = "issues" /\ project_configured))
    /\ UNCHANGED <<exit_code, file_saved, m_error, m_lookup_failed,
                   telegram_result, zulip_result>>
    /\ UNCHANGED nonMainVars

\* get_org_repositories() raises inside a collector call.
MainCollectLookupFails ==
    /\ m_pc \in {"commits", "prs", "issues"}
    /\ LooksUpRepositories(m_pc)
    /\ ExitWithError("get_org_repositories")
    /\ m_network' = TRUE
    /\ m_lookup_failed' = TRUE
    /\ UNCHANGED <<m_modes, file_saved, telegram_result, zulip_result>>
    /\ UNCHANGED nonMainVars

\* Another request the collector call does not guard raises.
MainCollectRequestFails ==
    /\ m_pc \in {"commits", "prs", "issues"}
    /\ ExitWithError(m_pc)
    /\ m_network' = TRUE
    /\ UNCHANGED <<m_modes, file_saved, m_lookup_failed, telegram_result,
                   zulip_result>>
    /\ UNCHANGED nonMainVars

\* The comments request of one pull request or one issue raises inside
\* get_pull_requests_for_period / get_issues_for_period (PullsCommentsFail,
\* IssuesCommentsFail, IssuesProjectRequestFails): the call raises into the
\* except of main().
MainCollectCommentsFail ==
    /\ m_pc \in {"prs", "issues"}
    /\ ExitWithError("comments")
    /\ m_network' = TRUE
    /\ UNCHANGED <<m_modes, file_saved, m_lookup_failed, telegram_result,
                   zulip_result>>
    /\ UNCHANGED nonMainVars

\* report_content = generator.generate_report(...)
MainGenerateReport ==
    /\ m_pc = "generate"
    /\ m_pc' = "output"
    /\ \E requested \in BOOLEAN : m_network' = (m_network \/ requested)
    /\ UNCHANGED <<m_modes, exit_code, file_saved, m_error, m_lookup_failed,
                   telegram_result, zulip_result>>
    /\ UNCHANGED nonMainVars

\* A dry run that prints the report and goes on to the notifications.
MainPrintAndNotify ==
    /\ m_pc = "output"
    /\ arg_dry_run
    /\ m_pc' = "telegram"
    /\ UNCHANGED <<m_modes, exit_code, file_saved, m_network, m_error,
                   m_lookup_failed, telegram_result, zulip_result>>
    /\ UNCHANGED nonMainVars

\* if args.dry_run: print the report
MainPrintReport ==
    /\ m_pc = "output"
    /\ arg_dry_run
    /\ m_pc' = "summary"
    /\ UNCHANGED <<m_modes, exit_code, file_saved, m_network, m_error,
                   m_lookup_failed, telegram_result, zulip_result>>
    /\ UNCHANGED nonMainVars

\* output_path = generator.save_report(report_content, args.output)
MainSaveReport ==
    /\ m_pc = "output"
    /\ ~arg_dry_run
    /\ file_saved' = TRUE
    /\ m_pc' = "telegram"
    /\ UNCHANGED <<m_modes, exit_code, m_network, m_error, m_lookup_failed,
                   telegram_result, zulip_result>>
    /\ UNCHANGED nonMainVars

\* save_report raises (mkdir or open fails).
MainSaveReportFails ==
    /\ m_pc = "output"
    /\ ~arg_dry_run
    /\ ExitWithError("save_report")
    /\ UNCHANGED <<m_modes, file_saved, m_network, m_lookup_failed,
                   telegram_result, zulip_result>>
    /\ UNCHANGED nonMainVars

\* A Telegram step after whose failure the Zulip step is skipped.
MainTelegramGatesZulip ==
    /\ m_pc = "telegram"
    /\ IF arg_telegram \/ send_telegram
          THEN IF telegram_configured
                  THEN /\ telegram_result' \in {"sent", "failed"}
                       /\ m_network' = TRUE
                  ELSE /\ telegram_result' = "failed"
                       /\ UNCHANGED m_network
          ELSE UNCHANGED <<telegram_result, m_network>>
    /\ m_pc' = IF telegram_result' = "failed" THEN "summary" ELSE "zulip"
    /\ UNCHANGED <<m_modes, exit_code, file_saved, m_error, m_lookup_failed,
                   zulip_result>>
    /\ UNCHANGED nonMainVars

\* lines 116-122; send_to_telegram returns False on any failure.
MainTelegram ==
    /\ m_pc = "telegram"
    /\ IF arg_telegram \/ send_telegram
          THEN IF telegram_configured
                  THEN /\ telegram_result' \in {"sent", "failed"}
                       /\ m_network' = TRUE
                  ELSE /\ telegram_result' = "failed"
                       /\ UNCHANGED m_network
          ELSE UNCHANGED <<telegram_result, m_network>>
    /\ m_pc' = "zulip"
    /\ UNCHANGED <<m_modes, exit_code, file_saved, m_error, m_lookup_failed,
                   zulip_result>>
    /\ UNCHANGED nonMainVars

\* lines 124-130; send_to_zulip reads self.config.zulip_email before its try.
MainZulip ==
    /\ m_pc = "zulip"
    /\ IF arg_zulip \/ send_zulip
          THEN IF ZulipAttributes \subseteq ConfigAttributes
                  THEN /\ zulip_result' \in {"sent", "failed"}
                       /\ m_network' \in {m_network, TRUE}
                       /\ m_pc' = "summary"
                       /\ UNCHANGED <<exit_code, m_error>>
                  ELSE /\ zulip_result' = "raised"
                       /\ ExitWithError("send_to_zulip")
                       /\ UNCHANGED m_network
          ELSE /\ m_pc' = "summary"
               /\ UNCHANGED <<zulip_result, m_network, exit_code, m_error>>
    /\ UNCHANGED <<m_modes, file_saved, m_lookup_failed, telegram_result>>
    /\ UNCHANGED nonMainVars

\* lines 132-147, then main returns: exit status 0.
MainSummary ==
    /\ m_pc = "summary"
    /\ m_pc' = "exit"
    /\ exit_code' = 0
    /\ m_network' = (m_network \/ RepositoriesDynamic)
    /\ UNCHANGED <<m_modes, file_saved, m_error, m_lookup_failed,
                   telegram_result, zulip_result>>
    /\ UNCHANGED nonMainVars

\* repo_count = len(collector.get_org_repositories()) raises.
MainSummaryLookupFails ==
    /\ m_pc = "summary"
    /\ RepositoriesDynamic
    /\ ExitWithError("get_org_repositories")
    /\ m_network' = TRUE
    /\ m_lookup_failed' = TRUE
    /\ UNCHANGED <<m_modes, file_saved, telegram_result, zulip_result>>
    /\ UNCHANGED nonMainVars

Main ==
    \/ MainParseArgs
    \/ MainLoadConfig
    \/ MainCollect
    \/ MainCollectLookupFails
    \/ MainCollectRequestFails
    \/ MainCollectCommentsFail
    \/ MainGenerateReport
    \/ MainPrintReport
    \/ MainSaveReport
    \/ MainSaveReportFails
    \/ MainTelegram
    \/ MainZulip
    \/ MainSummary
    \/ MainSummaryLookupFails

(***************************************************************************)
(* A direct call find_case_parent(issue, max_depth)                        *)
(***************************************************************************)
\* The dict a caller holds for issue i: string labels, the platform's type.
CallerIssue(i) ==
    [number     |-> i,
     title      |-> i,
     url        |-> i,
     type       |-> TypeOfKind(kind[i]),
     labels     |-> [k \in DOMAIN LabelNamesOfKind(kind[i]) |->
                        [shape |-> "str", name |-> LabelNamesOfKind(kind[i])[k]]],
     comments   |-> <<>>,
     repository |-> "r1"]

InitPlatform ==
    /\ parent_of \in [Issues -> 0..NumIssues]
    /\ kind \in [Issues -> Kinds]

IdleParent ==
    /\ g_pc = "idle"
    /\ g_url = 0
    /\ g_response = <<>>
    /\ g_requests = 0
    /\ g_result = <<>>

IdleFormat ==
    /\ f_pc = "idle"
    /\ f_served = <<>>
    /\ f_body = <<>>
    /\ f_rendered = <<>>

IdleScan ==
    /\ s_pc = "idle"
    /\ s_variant = "collector"
    /\ s_project = <<>>
    /\ s_cursor = 0
    /\ s_items = <<>>
    /\ s_failed = FALSE

IdleLegacy ==
    /\ l_pc = "idle"
    /\ l_issues = <<>>
    /\ l_all_prs = <<>>
    /\ l_incidents = <<>>
    /\ recent_comments = <<>>
    /\ recent_prs = <<>>
    /\ recent_incidents = <<>>

\* No collector method runs.
IdleCall ==
    /\ task = "none"
    /\ mode = "rolling"
    /\ now = 0
    /\ days_back = 0
    /\ start_time = 0
    /\ end_time = 0
    /\ cfg_repositories = <<>>

IdleCommits ==
    /\ c_pc = "idle"
    /\ repositories = <<>>
    /\ c_repo = 0
    /\ c_branches = <<>>
    /\ c_branch = 0
    /\ c_page = 0
    /\ repo_commits = <<>>
    /\ all_commits = <<>>
    /\ c_seen = <<>>
    /\ c_repeated = FALSE
    /\ c_reordered = FALSE
    /\ c_unread = <<>>
    /\ c_failed = <<>>

IdlePulls ==
    /\ include_pr_section = TRUE
    /\ p_pc = "idle"
    /\ p_repositories = <<>>
    /\ p_repo = 0
    /\ all_prs = <<>>
    /\ p_fetched = <<>>
    /\ report = <<>>
    /\ p_error = ""

IdleIssues ==
    /\ project_configured = FALSE
    /\ i_pc = "idle"
    /\ i_repositories = <<>>
    /\ i_repo = 0
    /\ all_issues = <<>>
    /\ i_fetched = <<>>
    /\ i_error = ""
    /\ include_case_sections = TRUE
    /\ i_report = <<>>

IdleRun ==
    /\ m_pc = "idle"
    /\ m_modes = <<>>
    /\ exit_code = -1
    /\ file_saved = FALSE
    /\ m_network = FALSE
    /\ m_error = ""
    /\ m_lookup_failed = FALSE
    /\ telegram_result = "none"
    /\ zulip_result = "none"

IdleMain ==
    /\ has_token = TRUE
    /\ has_org = TRUE
    /\ has_owner = FALSE
    /\ telegram_configured = FALSE
    /\ send_telegram = FALSE
    /\ send_zulip = FALSE
    /\ arg_time = "none"
    /\ arg_dry_run = FALSE
    /\ arg_telegram = FALSE
    /\ arg_zulip = FALSE
    /\ IdleRun

InitResolve ==
    /\ InitPlatform
    /\ IdleParent
    /\ IdleFormat
    /\ IdleScan
    /\ IdleLegacy
    /\ IdleCall
    /\ IdleCommits
    /\ IdlePulls
    /\ IdleIssues
    /\ IdleMain
    /\ r_entry = CallerIssue(1)
    /\ r_entry_depth \in 0..MaxDepth
    /\ r_first = <<>>
    /\ r_issue = r_entry
    /\ r_depth = r_entry_depth
    /\ r_pc = "call"
    /\ r_result = <<>>
    /\ r_fetches = 0

\* The caller passes the dict it got back to find_case_parent again, with
\* the default max_depth.
ResolveAgain ==
    /\ r_pc = "done"
    /\ r_first = <<>>
    /\ r_result # <<>>
    /\ r_first' = r_result
    /\ r_entry' = r_result[1]
    /\ r_issue' = r_result[1]
    /\ r_entry_depth' = DefaultMaxDepth
    /\ r_depth' = DefaultMaxDepth
    /\ r_fetches' = 0
    /\ r_result' = <<>>
    /\ r_pc' = "call"
    /\ UNCHANGED nonResolverVars

NextResolve == FindCaseParent \/ ResolveAgain

SpecResolve == InitResolve /\ [][NextResolve]_vars

(***************************************************************************)
(* One call of a collector method                                          *)
(***************************************************************************)
\* No find_case_parent call, on a platform without parents or Cases.
IdlePlatform ==
    /\ parent_of = [i \in Issues |-> 0]
    /\ kind = [i \in Issues |-> "plain"]

\* No find_case_parent call.
IdleFindCaseParent ==
    /\ r_pc = "idle"
    /\ r_entry = CallerIssue(1)
    /\ r_entry_depth = 0
    /\ r_first = <<>>
    /\ r_issue = r_entry
    /\ r_depth = 0
    /\ r_result = <<>>
    /\ r_fetches = 0

IdleWalk == IdlePlatform /\ IdleFindCaseParent

IdleResolver == IdleParent /\ IdleFormat /\ IdleScan /\ IdleLegacy /\ IdleWalk

\* A direct call of get_parent_issue_via_rest_api.
InitParent ==
    /\ InitPlatform
    /\ IdleFormat
    /\ IdleScan
    /\ IdleLegacy
    /\ IdleCall
    /\ IdleCommits
    /\ IdlePulls
    /\ IdleIssues
    /\ IdleMain
    /\ r_pc = "idle"
    /\ r_entry = CallerIssue(1)
    /\ r_entry_depth = 0
    /\ r_first = <<>>
    /\ r_issue = r_entry
    /\ r_depth = 0
    /\ r_result = <<>>
    /\ r_fetches = 0
    /\ g_pc = "call"
    /\ g_url \in Urls
    /\ g_response = <<>>
    /\ g_requests = 0
    /\ g_result = <<>>

NextParent == ParentLookup

SpecParent == InitParent /\ [][NextParent]_vars

\* One comment: served, collected, rendered.
InitFormat ==
    /\ IdleWalk
    /\ IdleParent
    /\ IdleScan
    /\ IdleLegacy
    /\ IdleCall
    /\ IdleCommits
    /\ IdlePulls
    /\ IdleIssues
    /\ IdleMain
    /\ f_pc = "served"
    /\ f_served \in Bodies
    /\ f_body = <<>>
    /\ f_rendered = <<>>

NextFormat == CollectComment \/ RenderComment

SpecFormat == InitFormat /\ [][NextFormat]_vars

\* One scan of a project.
InitScan ==
    /\ IdleWalk
    /\ IdleParent
    /\ IdleFormat
    /\ IdleLegacy
    /\ IdleCall
    /\ IdleCommits
    /\ IdlePulls
    /\ IdleIssues
    /\ IdleMain
    /\ s_pc = "scan"
    /\ s_variant \in {"collector", "legacy", "incidents"}
    /\ s_project \in {<<>>} \cup {<<items>> : items \in Projects}
    /\ s_cursor = 0
    /\ s_items = <<>>
    /\ s_failed = FALSE

NextScan ==
    \/ ScanPage
    \/ ScanProjectMissing
    \/ ScanPageFails
    \/ LegacyMainCatchesIncidents

SpecScan == InitScan /\ [][NextScan]_vars

\* The platforms of an issues call: no issue has a parent, or each issue is
\* the sub-issue of the next one; no issue is a Case, or the last one is by
\* its type, or the first one is by its label.
IssuePlatforms ==
    [parent_of : {[i \in Issues |-> 0],
                  [i \in Issues |-> IF i < NumIssues THEN i + 1 ELSE 0]},
     kind : {[i \in Issues |-> "plain"],
             [i \in Issues |-> IF i = NumIssues THEN "typed" ELSE "plain"],
             [i \in Issues |-> IF i = 1 THEN "labelled" ELSE "plain"]}]

\* The platforms of a legacy run: those of an issues call, and one where
\* the sub-issue links form a cycle through issues none of which is a Case.
LegacyPlatforms ==
    IssuePlatforms
    \cup {[parent_of |-> [i \in Issues |-> (i % NumIssues) + 1],
           kind |-> [i \in Issues |-> "plain"]]}

\* One call of collect_recent_comments_and_prs, the cutoff being hour 1.
\* The three loops share nothing: one of the arguments is not empty.
InitLegacy ==
    /\ IdleParent
    /\ IdleFormat
    /\ IdleScan
    /\ \E platform \in LegacyPlatforms :
          parent_of = platform.parent_of /\ kind = platform.kind
    /\ IdleFindCaseParent
    /\ task = "legacy"
    /\ mode = "rolling"
    /\ now = DayLength + 1
    /\ days_back = 1
    /\ start_time = 0
    /\ end_time = 0
    /\ cfg_repositories = <<>>
    /\ IdleCommits
    /\ IdlePulls
    /\ IdleIssues
    /\ IdleMain
    /\ l_pc = "call"
    /\ \/ l_issues \in LegacyIssueLists /\ l_all_prs = <<>> /\ l_incidents = <<>>
       \/ l_issues = <<>> /\ l_all_prs \in LegacyPrLists /\ l_incidents = <<>>
       \/ l_issues = <<>> /\ l_all_prs = <<>> /\ l_incidents \in LegacyIssueLists
    /\ recent_comments = <<>>
    /\ recent_prs = <<>>
    /\ recent_incidents = <<>>

NextLegacy == LegacyCollect \/ LegacyCollectRaises

SpecLegacy == InitLegacy /\ [][NextLegacy]_vars

\* config.repositories: None with an organization, else a list (here of one
\* repository; the organization's listing returns up to all of Repos).
ConfiguredRepositories == {<<>>, <<SubSeq(Repos, 1, 1)>>}

\* A rolling call: the cutoff now - days_back days is hour 1.
RollingCall ==
    /\ mode = "rolling"
    /\ days_back \in {1, 3}
    /\ now = days_back * DayLength + 1
    /\ start_time = 0
    /\ end_time = 0

\* An exact call: start and end are Moscow times, hours 1 and 2 in UTC.
ExactCall ==
    /\ mode = "exact"
    /\ now = 0
    /\ days_back = 0
    /\ start_time = MoscowOffset + 1
    /\ end_time \in {MoscowOffset + 1, MoscowOffset + 2}

\* get_commits_for_period(days) or get_commits_for_exact_period(start, end)
InitCommits ==
    /\ task = "commits"
    /\ \/ RollingCall /\ days_back = 1
       \/ ExactCall
    /\ cfg_repositories \in ConfiguredRepositories
    /\ c_pc = "repos"
    /\ repositories = <<>>
    /\ c_repo = 0
    /\ c_branches = <<>>
    /\ c_branch = 0
    /\ c_page = 0
    /\ repo_commits = <<>>
    /\ all_commits = <<>>
    /\ c_seen = <<>>
    /\ c_repeated = FALSE
    /\ c_reordered = FALSE
    /\ c_unread = <<>>
    /\ c_failed = <<>>

\* get_pull_requests_for_period(days) or ..._for_exact_period(start, end),
\* then generate_report on what it returned
InitPulls ==
    /\ task = "prs"
    /\ \/ RollingCall /\ days_back = 1
       \/ ExactCall /\ end_time # start_time
    /\ cfg_repositories \in ConfiguredRepositories
    /\ include_pr_section \in BOOLEAN
    /\ p_pc = "repos"
    /\ p_repositories = <<>>
    /\ p_repo = 0
    /\ all_prs = <<>>
    /\ p_fetched = <<>>
    /\ report = <<>>
    /\ p_error = ""

\* get_issues_for_period(days) or get_issues_for_exact_period(start, end).
\* With a project configured the call never reads config.repositories;
\* with include_case_sections off the report holds nothing of what the
\* platform answers about parents and Cases.
InitIssues ==
    /\ task = "issues"
    /\ include_case_sections \in BOOLEAN
    /\ IF include_case_sections
          THEN \E platform \in IssuePlatforms :
                  parent_of = platform.parent_of /\ kind = platform.kind
          ELSE IdlePlatform
    /\ \/ RollingCall /\ days_back = 1
       \/ ExactCall /\ end_time # start_time
    /\ project_configured \in BOOLEAN
    /\ cfg_repositories \in (IF project_configured THEN {<<>>}
                                                   ELSE ConfiguredRepositories)
    /\ i_pc = IF project_configured THEN "project" ELSE "repos"
    /\ i_repositories = <<>>
    /\ i_repo = 0
    /\ all_issues = <<>>
    /\ i_fetched = <<>>
    /\ i_error = ""
    /\ i_report = <<>>

Init ==
    /\ IdleParent
    /\ IdleFormat
    /\ IdleScan
    /\ IdleLegacy
    /\ IdleMain
    /\ \/ IdlePlatform /\ InitCommits /\ IdlePulls /\ IdleIssues
       \/ IdlePlatform /\ IdleCommits /\ InitPulls /\ IdleIssues
       \/ IdleCommits /\ IdlePulls /\ InitIssues
    /\ IdleFindCaseParent

Next ==
    \/ GetCommits
    \/ GetPullRequests
    \/ GetIssues

Spec == Init /\ [][Next]_vars

(***************************************************************************)
(* One run of main()                                                       *)
(***************************************************************************)
InitMain ==
    /\ IdleResolver
    /\ IdleCall
    /\ IdleCommits
    /\ IdlePulls
    /\ project_configured \in BOOLEAN
    /\ i_pc = "idle"
    /\ i_repositories = <<>>
    /\ i_repo = 0
    /\ all_issues = <<>>
    /\ i_fetched = <<>>
    /\ i_error = ""
    /\ include_case_sections = TRUE
    /\ i_report = <<>>
    /\ has_token \in BOOLEAN
    /\ has_org \in BOOLEAN
    /\ has_owner \in BOOLEAN
    /\ telegram_configured \in BOOLEAN
    /\ send_telegram \in BOOLEAN
    /\ send_zulip \in BOOLEAN
    /\ arg_time \in {"none", "partial", "valid", "malformed"}
    /\ arg_dry_run \in BOOLEAN
    /\ arg_telegram \in BOOLEAN
    /\ arg_zulip \in BOOLEAN
    /\ m_pc = "args"
    /\ m_modes = <<>>
    /\ exit_code = -1
    /\ file_saved = FALSE
    /\ m_network = FALSE
    /\ m_error = ""
    /\ m_lookup_failed = FALSE
    /\ telegram_result = "none"
    /\ zulip_result = "none"

NextMain == Main

SpecMain == InitMain /\ [][NextMain]_vars

(***************************************************************************)
(* Claims about find_case_parent                                           *)
(***************************************************************************)
\* The parent relation holds a 3-cycle through the issue of the outermost
\* call, and no issue of the cycle is a Case.
NoCaseCycle3 ==
    \E a, b, c \in Issues :
        /\ a # b /\ b # c /\ a # c
        /\ r_entry.url \in {a, b, c}
        /\ parent_of[a] = b /\ parent_of[b] = c /\ parent_of[c] = a
        /\ \A i \in {a, b, c} : kind[i] = "plain"

\* C2: find_case_parent(issue, max_depth) terminates for every parent
\* relation, cyclic ones included, after at most max_depth parent fetches:
\* the number of fetches never exceeds max_depth, every call that has not
\* returned has a next step and its max_depth is the outermost max_depth
\* less the fetches made (so each recursion strictly lowers it towards the
\* return at 0); on a 3-cycle without a Case the value returned is None.
C2_TerminatesWithinMaxDepth ==
    /\ r_fetches <= r_entry_depth
    /\ r_pc = "call" =>
          /\ r_depth >= 0
          /\ r_depth + r_fetches = r_entry_depth
          /\ ENABLED FindCaseParent
    /\ (r_pc = "done" /\ NoCaseCycle3) => r_result = <<>>

\* A call on a 3-cycle without a Case has gone once round the whole cycle
\* and returned.
C2_Witness ==
    /\ r_pc = "done"
    /\ NoCaseCycle3
    /\ r_entry_depth >= 3
    /\ r_fetches = r_entry_depth
    /\ r_issue.url = r_entry.url

\* C3: when the issue passed to find_case_parent satisfies the Case
\* predicate (type name or label name equal to "case", case-insensitively),
\* the call returns that same issue and issues no parent fetch.
C3_ReflexiveOnCase ==
    (r_pc = "done" /\ IsCaseIssue(r_entry)) =>
        (r_result = <<r_entry>> /\ r_fetches = 0)

(***************************************************************************)
(* C1: in every repository's commit list, finished or still being filled, *)
(* in a rolling and in an exact call, no two entries carry the same sha,   *)
(* whatever pages the branches return and although several branches (and   *)
(* several pages) return the same commit.                                  *)
(***************************************************************************)
NoTwoEntriesShareSha(list) ==
    \A i, j \in DOMAIN list : i # j => list[i].sha # list[j].sha

C1_NoDuplicateSha ==
    /\ NoTwoEntriesShareSha(repo_commits)
    /\ \A repo \in DOMAIN all_commits : NoTwoEntriesShareSha(all_commits[repo])

\* The call has returned; the platform returned a commit twice, and the one
\* repository's list holds every commit there is.
C1_Witness ==
    /\ c_pc = "done"
    /\ c_repeated
    /\ DOMAIN all_commits = {Repos[1]}
    /\ Len(all_commits[Repos[1]]) = NumShas

(***************************************************************************)
(* The window as the specification defines it: strictly after the cutoff   *)
(* now - N days in a rolling call, start <= t <= end (both taken to UTC)   *)
(* in an exact call.                                                       *)
(***************************************************************************)
StrictlyAfterCutoff(t) == t > now - days_back * DayLength

WithinExactRange(t) ==
    start_time - MoscowOffset <= t /\ t <= end_time - MoscowOffset

InActiveWindow(t) ==
    IF mode = "rolling" THEN StrictlyAfterCutoff(t) ELSE WithinExactRange(t)

PullsReturned == p_pc \in {"done", "reported"}
IssuesReturned == i_pc = "done"

\* The entries the collector kept for pull request `number` of `repo`.
KeptPulls(repo, number) ==
    {all_prs[repo][k] : k \in {k \in DOMAIN all_prs[repo] :
                                  all_prs[repo][k].number = number}}

\* The entries the collector kept for issue `number` of `repo`.
KeptIssues(repo, number) ==
    IF repo \in DOMAIN all_issues
       THEN {all_issues[repo][k] : k \in {k \in DOMAIN all_issues[repo] :
                                             all_issues[repo][k].number = number}}
       ELSE {}

HoldsComment(entries, id) ==
    \E e \in entries : \E k \in DOMAIN e.comments : e.comments[k].id = id

\* The issues (not pull requests) the platform served to the issue collector.
ServedIssues == {i_fetched[k] : k \in {k \in DOMAIN i_fetched :
                                          ~i_fetched[k].is_pull_request}}

(***************************************************************************)
(* C4: in a rolling call membership is strict.  A pull request comment, an *)
(* issue comment or a pull request creation is classified as in the window *)
(* exactly when its timestamp is strictly after the cutoff; one at the     *)
(* cutoff itself is out.                                                   *)
(***************************************************************************)
C4_RollingMembershipStrict ==
    mode = "rolling" =>
      /\ PullsReturned =>
            \A repo \in DOMAIN p_fetched : \A n \in DOMAIN p_fetched[repo] :
               LET pr == p_fetched[repo][n] IN
               /\ (\E e \in KeptPulls(repo, pr.number) : e.recently_created)
                     <=> StrictlyAfterCutoff(pr.created_at)
               /\ \A k \in DOMAIN CommentsOf(pr) :
                     HoldsComment(KeptPulls(repo, pr.number), CommentsOf(pr)[k].id)
                        <=> StrictlyAfterCutoff(CommentsOf(pr)[k].created_at)
      /\ IssuesReturned =>
            \A issue \in ServedIssues : \A k \in DOMAIN issue.comments :
               HoldsComment(KeptIssues(issue.repository, issue.number),
                            issue.comments[k].id)
                  <=> StrictlyAfterCutoff(issue.comments[k].created_at)

(***************************************************************************)
(* C5: in an exact call membership is inclusive at both ends.  Of the      *)
(* records the platform served, a commit is in its repository's list, a    *)
(* pull request is kept as recently created, and a comment is kept, exactly*)
(* when start <= timestamp <= end, start and end taken to UTC.             *)
(***************************************************************************)
C5_ExactMembershipInclusive ==
    mode = "exact" =>
      /\ c_pc = "done" =>
            \A repo \in DOMAIN all_commits : \A sha \in c_seen[repo] :
               (\E k \in DOMAIN all_commits[repo] : all_commits[repo][k].sha = sha)
                  <=> WithinExactRange(CommitDate(sha))
      /\ PullsReturned =>
            \A repo \in DOMAIN p_fetched : \A n \in DOMAIN p_fetched[repo] :
               LET pr == p_fetched[repo][n] IN
               /\ (\E e \in KeptPulls(repo, pr.number) : e.recently_created)
                     <=> WithinExactRange(pr.created_at)
               /\ \A k \in DOMAIN CommentsOf(pr) :
                     HoldsComment(KeptPulls(repo, pr.number), CommentsOf(pr)[k].id)
                        <=> WithinExactRange(CommentsOf(pr)[k].created_at)
      /\ IssuesReturned =>
            \A issue \in ServedIssues : \A k \in DOMAIN issue.comments :
               HoldsComment(KeptIssues(issue.repository, issue.number),
                            issue.comments[k].id)
                  <=> WithinExactRange(issue.comments[k].created_at)

\* An exact call has returned a pull request created at start, kept as
\* recently created, with its comment made at end and without its comment
\* made after end.
C5_Witness ==
    /\ mode = "exact"
    /\ p_pc = "done"
    /\ start_time < end_time
    /\ \E repo \in DOMAIN p_fetched : \E n \in DOMAIN p_fetched[repo] :
          LET pr == p_fetched[repo][n] IN
          /\ pr.created_at = start_time - MoscowOffset
          /\ Len(pr.issue_comments) = 1
          /\ pr.issue_comments[1].created_at = end_time - MoscowOffset
          /\ Len(pr.review_comments) = 1
          /\ pr.review_comments[1].created_at > end_time - MoscowOffset
          /\ \E e \in KeptPulls(repo, pr.number) :
                /\ e.recently_created
                /\ Len(e.comments) = 1
                /\ e.comments[1].id = pr.issue_comments[1].id

(***************************************************************************)
(* C6: an issue with no comment inside the active window is not in the     *)
(* collected issue set, and every issue the collector keeps carries a      *)
(* non-empty list of comments, all of them inside the window.              *)
(***************************************************************************)
C6_OnlyIssuesWithWindowComments ==
    IssuesReturned =>
      /\ \A issue \in ServedIssues :
            (\A k \in DOMAIN issue.comments :
                ~InActiveWindow(issue.comments[k].created_at))
            => KeptIssues(issue.repository, issue.number) = {}
      /\ \A repo \in DOMAIN all_issues : \A n \in DOMAIN all_issues[repo] :
            LET kept == all_issues[repo][n] IN
            /\ kept.comments # <<>>
            /\ \A k \in DOMAIN kept.comments :
                  InActiveWindow(kept.comments[k].created_at)

(***************************************************************************)
(* C7: a pull request created inside the active window, none of whose      *)
(* comments is inside the window, is kept with recently_created = true and *)
(* the report holds its section: its title line followed by the line       *)
(* "<author display name>: Sent PR to review".                             *)
(***************************************************************************)
\* The pull requests served that C7 is about.
CreatedInWindowUncommented(pr) ==
    /\ InActiveWindow(pr.created_at)
    /\ \A k \in DOMAIN CommentsOf(pr) : ~InActiveWindow(CommentsOf(pr)[k].created_at)

KeptAsRecentlyCreated(repo, pr) ==
    \E e \in KeptPulls(repo, pr.number) : e.recently_created /\ e.comments = <<>>

\* zotho is shown as Svyatoslav; a login without a display name as itself.
ShownName(login) == IF login = "zotho" THEN "Svyatoslav" ELSE login

ReportHoldsSentToReview(repo, pr) ==
    \E k \in 1..(Len(report) - 1) :
       /\ report[k] = [kind |-> "pr_title", repo |-> repo, ref |-> pr.number,
                       name |-> ""]
       /\ report[k + 1] = [kind |-> "sent_to_review", repo |-> repo,
                           ref |-> pr.number, name |-> ShownName(pr.user)]

C7_SentToReviewInReport ==
    /\ PullsReturned =>
          \A repo \in DOMAIN p_fetched : \A n \in DOMAIN p_fetched[repo] :
             CreatedInWindowUncommented(p_fetched[repo][n])
             => KeptAsRecentlyCreated(repo, p_fetched[repo][n])
    /\ p_pc = "reported" =>
          \A repo \in DOMAIN p_fetched : \A n \in DOMAIN p_fetched[repo] :
             CreatedInWindowUncommented(p_fetched[repo][n])
             => ReportHoldsSentToReview(repo, p_fetched[repo][n])

\* C7 as amended: the report holds the section when the setting
\* report_format.include_pr_section is on; the pull request is kept with
\* recently_created = true whatever the setting.
C7_SentToReviewWhenSectionEnabled ==
    /\ PullsReturned =>
          \A repo \in DOMAIN p_fetched : \A n \in DOMAIN p_fetched[repo] :
             CreatedInWindowUncommented(p_fetched[repo][n])
             => KeptAsRecentlyCreated(repo, p_fetched[repo][n])
    /\ (p_pc = "reported" /\ include_pr_section) =>
          \A repo \in DOMAIN p_fetched : \A n \in DOMAIN p_fetched[repo] :
             CreatedInWindowUncommented(p_fetched[repo][n])
             => ReportHoldsSentToReview(repo, p_fetched[repo][n])

\* The report of a rolling call is generated with the section enabled, for a
\* pull request by zotho created after the cutoff and never commented.
C7_Witness ==
    /\ p_pc = "reported"
    /\ include_pr_section
    /\ mode = "rolling"
    /\ \E repo \in DOMAIN p_fetched : \E n \in DOMAIN p_fetched[repo] :
          LET pr == p_fetched[repo][n] IN
          /\ pr.user = "zotho"
          /\ CommentsOf(pr) = <<>>
          /\ CreatedInWindowUncommented(pr)
          /\ ReportHoldsSentToReview(repo, pr)

(***************************************************************************)
(* C8: a run without --dry-run that has saved the report file exits with   *)
(* status 0 whatever happens to the Telegram and Zulip notifications: a    *)
(* run that saved the file, and in which no repository-list lookup failed, *)
(* has nothing but notifications left to fail and ends with status 0.      *)
(***************************************************************************)
C8_SavedRunExitsZero ==
    (m_pc = "exit" /\ file_saved /\ ~m_lookup_failed) => exit_code = 0

(***************************************************************************)
(* C9: once a repository-list lookup (get_org_repositories) has failed,    *)
(* the run has ended with a non-zero status and has written no output      *)
(* file, also when the failing call is the one of the final summary.      *)
(***************************************************************************)
C9_LookupFailureLeavesNoFile ==
    m_lookup_failed => (m_pc = "exit" /\ exit_code # 0 /\ ~file_saved)

(***************************************************************************)
(* C10: with MY_GH_TOKEN missing, or with neither MY_GH_ORG nor            *)
(* MY_GH_OWNER set, the run never issues a request, never writes a file,   *)
(* never gets past the construction of the configuration, and ends with    *)
(* exit status 1.                                                          *)
(***************************************************************************)
CredentialMissing == ~has_token \/ (~has_org /\ ~has_owner)

C10_MissingCredentialFailsEarly ==
    CredentialMissing =>
      /\ ~m_network
      /\ ~file_saved
      /\ m_pc \in {"args", "config", "exit"}
      /\ m_pc = "exit" => exit_code = 1

\* A run with a token but neither organization nor owner has ended in the
\* construction of the configuration.
C10_Witness ==
    /\ has_token /\ ~has_org /\ ~has_owner
    /\ m_pc = "exit"
    /\ m_error = "Config"
    /\ exit_code = 1

(***************************************************************************)
(* C11: a transport failure of the comments request of one issue or one    *)
(* pull request is logged and skipped: the run does not take the exit-1    *)
(* path because of it.                                                     *)
(***************************************************************************)
C11_CommentFailureNotFatal == m_error = "comments" => exit_code # 1

(***************************************************************************)
(* C13: get_parent_issue_via_rest_api never raises; for a url that is not  *)
(* of the shape <owner>/<repo>/issues/<number> it returns None without     *)
(* issuing a request; for a non-200 answer or a request exception (status  *)
(* 0) it returns None; it returns the parent body only on HTTP 200.        *)
(***************************************************************************)
\* The urls of the shape the claim names: those of issues.
IssueShapedUrls == {url \in Urls : url \in Issues}

C20_CommitsByDateDescending ==
    \A repo \in DOMAIN all_commits :
       \A k \in 1..(Len(all_commits[repo]) - 1) :
          all_commits[repo][k].date >= all_commits[repo][k + 1].date

\* An exact call returned: the commits of a repository had been collected in
\* another order, and its list has them all.
C20_Witness ==
    /\ c_pc = "done"
    /\ mode = "exact"
    /\ c_reordered
    /\ \E repo \in DOMAIN all_commits : Len(all_commits[repo]) >= 2

(***************************************************************************)
(* C18: _format_comment first collapses runs of blank lines to a single    *)
(* blank line and then truncates: a body whose collapsed length exceeds    *)
(* 500 is rendered as exactly the first 500 characters of the collapsed    *)
(* text followed by "...", one whose collapsed length is at most 500 is    *)
(* rendered without an ellipsis; the rendered length never exceeds 503,    *)
(* and the collected record keeps the full body.                           *)
(***************************************************************************)
\* The character at position pos of a text.
RECURSIVE CharAt(_, _)
CharAt(text, pos) ==
    IF pos <= Head(text).n THEN Head(text).ch
    ELSE CharAt(Tail(text), pos - Head(text).n)

\* No stretch of white space of the text holds more than one blank line: its
\* newlines are at most two, with nothing between them.
BlankLinesCollapsed(text) ==
    \A i, j \in DOMAIN text :
       (/\ i <= j
        /\ text[i].ch = Newline
        /\ text[j].ch = Newline
        /\ \A k \in i..j : IsSpace(text[k].ch))
       => /\ \A k \in i..j : text[k].ch = Newline
          /\ TextLen(SubSeq(text, i, j)) <= 2

\* The positions the rendering is compared at: both ends of the cut.
ComparedPositions == (1..4) \cup ((MaxLength - 3)..MaxLength)

\* The body served, with blank lines collapsed.
CollapsedServed == CollapseBlankLines(Strip(f_served))

C18_CollapseThenTruncate ==
    f_pc = "rendered" =>
       /\ f_body = f_served
       /\ BlankLinesCollapsed(CollapsedServed)
       /\ SelectSeq(CollapsedServed, LAMBDA run : ~IsSpace(run.ch))
             = SelectSeq(f_served, LAMBDA run : ~IsSpace(run.ch))
       /\ TextLen(f_rendered) <= MaxLength + 3
       /\ TextLen(CollapsedServed) <= MaxLength => f_rendered = CollapsedServed
       /\ TextLen(CollapsedServed) > MaxLength =>
             /\ TextLen(f_rendered) = MaxLength + 3
             /\ f_rendered[Len(f_rendered)] = Run(".", 3)
             /\ \A pos \in ComparedPositions :
                   CharAt(f_rendered, pos) = CharAt(CollapsedServed, pos)
             /\ f_rendered = Prefix(CollapsedServed, MaxLength) \o Ellipsis

\* A body that is too long even after its blank lines were collapsed has
\* been rendered, cut, with the ellipsis.
C18_Witness ==
    /\ f_pc = "rendered"
    /\ CollapsedServed # Strip(f_served)
    /\ TextLen(CollapsedServed) > MaxLength
    /\ f_rendered[Len(f_rendered)] = Run(".", 3)

(***************************************************************************)
(* C12: a failure (transport error or GraphQL error list) of a top-level   *)
(* project query is fatal: once a page query of a project scan has failed, *)
(* the scan raises and nothing goes on with an empty or partial list of    *)
(* items -- for the collector's project-items query and for the legacy     *)
(* script's project and incident-project lookups.                          *)
(***************************************************************************)
C12_ProjectQueryFailureFatal == s_failed => s_pc = "raised"

(***************************************************************************)
(* C19: the project-column scan returns exactly the project items, over    *)
(* all pages in cursor order, whose content is an Issue and whose value of *)
(* the field named Status is in the allow-list; an item whose Status is    *)
(* not in the allow-list is never returned, even if another single-select  *)
(* field of it carries an allow-listed name.                               *)
(***************************************************************************)
\* The item has a field named Status whose value is in the allow-list.
StatusAllowed(item) ==
    \E k \in DOMAIN item.fieldValues :
       /\ item.fieldValues[k].field = "Status"
       /\ item.fieldValues[k].name \in Columns

\* The numbers of the items the claim names, in cursor order.
AllowedIssueNumbers(items) ==
    SelectSeq([k \in 1..Len(items) |-> k],
              LAMBDA k : items[k].content = "Issue" /\ StatusAllowed(items[k]))

C19_ScanReturnsStatusItems ==
    (/\ s_pc = "returned"
     /\ s_variant \in {"collector", "legacy"}
     /\ s_project # <<>>
     /\ ~s_failed)
    => [k \in DOMAIN s_items |-> s_items[k].number]
          = AllowedIssueNumbers(s_project[1])

(***************************************************************************)
(* C16: in the assembled report no issue (keyed by repository and number)  *)
(* is listed more than once under the same Case section, whatever was      *)
(* collected, also when the issue is an item of both the configured        *)
(* project and the incident project.                                       *)
(***************************************************************************)
C16_IssueOncePerCaseSection ==
    \A a, b \in DOMAIN i_report :
       (/\ a < b
        /\ i_report[a].kind = "issue"
        /\ i_report[b].kind = "issue"
        /\ i_report[a].repo = i_report[b].repo
        /\ i_report[a].ref = i_report[b].ref)
       => \E c \in (a + 1)..(b - 1) : i_report[c].kind = "case"

(***************************************************************************)
(* C14: once the legacy collection has returned, an incident is in         *)
(* recent_incidents if and only if one of its comments was created after   *)
(* the cutoff or it was updated after the cutoff; the entries keep the     *)
(* order of the incidents, and the recent_comments_count of an entry is    *)
(* the number of its comments flagged is_recent, the flagged comments      *)
(* being those created after the cutoff.                                   *)
(***************************************************************************)
\* The incident of the call with this number.
IncidentNumbered(number) ==
    CHOOSE incident \in {l_incidents[k] : k \in DOMAIN l_incidents} :
       incident.number = number

\* The numbers of the incidents with activity inside the window, in order.
ActiveIncidentNumbers ==
    SelectSeq([k \in DOMAIN l_incidents |-> l_incidents[k].number],
              LAMBDA n :
                 \/ \E c \in DOMAIN IncidentNumbered(n).comments :
                       StrictlyAfterCutoff(IncidentNumbered(n).comments[c].created_at)
                 \/ StrictlyAfterCutoff(IncidentNumbered(n).updated_at))

C14_IncidentsWithRecentActivity ==
    l_pc = "returned" =>
       /\ [j \in DOMAIN recent_incidents |-> recent_incidents[j].incident_number]
             = ActiveIncidentNumbers
       /\ \A j \in DOMAIN recent_incidents :
             LET info == recent_incidents[j]
                 incident == IncidentNumbered(info.incident_number) IN
             /\ info.recent_comments_count
                   = Cardinality({c \in DOMAIN info.comments :
                                     info.comments[c].is_recent})
             /\ DOMAIN info.comments = DOMAIN incident.comments
             /\ \A c \in DOMAIN info.comments :
                   info.comments[c].is_recent
                      <=> StrictlyAfterCutoff(incident.comments[c].created_at)

\* An incident updated after the cutoff, none of whose comments is recent,
\* is listed with a count of 0 next to a comment that is not flagged.
C14_Witness ==
    /\ l_pc = "returned"
    /\ \E j \in DOMAIN recent_incidents :
          /\ recent_incidents[j].recent_comments_count = 0
          /\ recent_incidents[j].comments # <<>>

(***************************************************************************)
(* C15: once the legacy collection has returned, recent_prs lists the      *)
(* fetched pull requests whose review-request timeline holds at least one  *)
(* event created after the cutoff, and no other: in the order they were    *)
(* fetched, one entry for each occurrence in the fetched list.             *)
(***************************************************************************)
\* The positions of the fetched list whose timeline has an event inside the
\* window, in order.
ReviewedPositions ==
    SelectSeq([k \in DOMAIN l_all_prs |-> k],
              LAMBDA k : \E e \in DOMAIN l_all_prs[k].events :
                            StrictlyAfterCutoff(l_all_prs[k].events[e]))

C15_RecentlyReviewedPrs ==
    l_pc = "returned" =>
       [j \in DOMAIN recent_prs |-> recent_prs[j].pr_number]
          = [j \in DOMAIN ReviewedPositions |-> l_all_prs[ReviewedPositions[j]].number]

\* A pull request fetched twice is listed twice, its request inside the
\* window coming after one at the cutoff.
C15_Witness ==
    /\ l_pc = "returned"
    /\ Len(recent_prs) = 2
    /\ recent_prs[1].pr_number = recent_prs[2].pr_number
    /\ \E k \in DOMAIN l_all_prs :
          /\ Len(l_all_prs[k].events) = 2
          /\ ~StrictlyAfterCutoff(l_all_prs[k].events[1])
          /\ StrictlyAfterCutoff(l_all_prs[k].events[2])

(***************************************************************************)
(* C17: an issue with comments inside the window that is no Case and has   *)
(* no Case among its ancestors is listed in no Case section of the         *)
(* assembled report, and once the legacy collection is over each of its    *)
(* comments inside the window is in the flat list recent_comments with     *)
(* case_url and case_title None.                                           *)
(***************************************************************************)
\* The issues above `number` in the sub-issue relation, at most `fuel` links
\* away.
RECURSIVE AncestorsOf(_, _)
AncestorsOf(number, fuel) ==
    IF parent_of[number] = 0 \/ fuel = 0 THEN {}
    ELSE {parent_of[number]} \cup AncestorsOf(parent_of[number], fuel - 1)

\* Neither the issue nor any of its ancestors is a Case.
CaseUnresolvable(number) ==
    \A i \in {number} \cup AncestorsOf(number, NumIssues) : kind[i] = "plain"

\* The issue is listed in the Case-grouped view.
InCaseSection(repo, number) ==
    \E k \in DOMAIN i_report :
       /\ i_report[k].kind = "issue"
       /\ i_report[k].repo = repo
       /\ i_report[k].ref = number

\* The comment is in the flat list without a Case reference.
InFlatListWithoutCase(number, id) ==
    \E j \in DOMAIN recent_comments :
       /\ recent_comments[j].issue_url = number
       /\ recent_comments[j].id = id
       /\ recent_comments[j].case_url = <<>>
       /\ recent_comments[j].case_title = <<>>

C21_OneModePerRun ==
    /\ Len(m_modes) <= 3
    /\ \A k \in DOMAIN m_modes :
          m_modes[k] = "exact" <=> arg_time = "valid"
    /\ \A k \in DOMAIN m_modes : m_modes[k] \in {"exact", "rolling"}

\* The three collections of a run with both bounds given were made.
C21_Witness ==
    /\ arg_time = "valid"
    /\ m_pc = "generate"
    /\ m_modes = <<"exact", "exact", "exact">>

(***************************************************************************)
(* C22: in a run with --dry-run no report file is saved and neither the    *)
(* Telegram nor the Zulip send is attempted, whatever --telegram, --zulip  *)
(* and the send_telegram / send_zulip settings say.                        *)
(***************************************************************************)
C22_DryRunOnlyPrints ==
    arg_dry_run =>
       /\ ~file_saved
       /\ telegram_result = "none"
       /\ zulip_result = "none"
       /\ m_pc \notin {"telegram", "zulip"}

\* A dry run with both notifications asked for, by flag and by setting, has
\* printed its report and ended normally.
C22_Witness ==
    /\ arg_dry_run
    /\ arg_telegram /\ arg_zulip /\ send_telegram /\ send_zulip
    /\ telegram_configured
    /\ m_pc = "exit"
    /\ exit_code = 0

(***************************************************************************)
(* C29: in a run without --dry-run a notification is attempted only with   *)
(* the report file saved, and the file stays saved whatever the sends do;  *)
(* when Zulip is asked for, the Zulip send is attempted after the Telegram *)
(* attempt whether that one succeeded or failed.                           *)
(***************************************************************************)
C29_SaveThenIndependentNotifications ==
    /\ (\/ m_pc \in {"telegram", "zulip"}
        \/ telegram_result # "none"
        \/ zulip_result # "none") => file_saved /\ ~arg_dry_run
    /\ (telegram_result # "none" /\ (arg_zulip \/ send_zulip))
          => (m_pc = "zulip" \/ zulip_result # "none")

\* The Telegram send has failed, the Zulip send was attempted all the same,
\* and the report file is there.
C29_Witness ==
    /\ telegram_configured
    /\ telegram_result = "failed"
    /\ zulip_result # "none"
    /\ file_saved

(***************************************************************************)
(* C25: the Case checks come before the depth check: a call of             *)
(* find_case_parent with max_depth = 0 returns the issue itself when the   *)
(* issue is a Case, and None only when it is not.                          *)
(***************************************************************************)
C25_CaseChecksBeforeDepthCheck ==
    (r_pc = "done" /\ r_entry_depth = 0) =>
        /\ r_fetches = 0
        /\ r_result = IF IsCaseIssue(r_entry) THEN <<r_entry>> ELSE <<>>

(***************************************************************************)
(* C26: the find_case_parent of the legacy script is depth-bounded: for an *)
(* item whose parent chain is a cycle of issues none of which is a Case,   *)
(* it returns None, so that the collection calling it returns and lists    *)
(* the item's recent comments without a Case.                              *)
(***************************************************************************)
\* The issue lies on a cycle of the parent relation that holds no Case.
OnCaseLessCycle(number) ==
    /\ number \in AncestorsOf(number, NumIssues)
    /\ CaseUnresolvable(number)

RECURSIVE AncestorAt(_, _)
AncestorAt(i, n) ==
    IF n = 0 \/ i = 0 THEN i ELSE AncestorAt(parent_of[i], n - 1)

\* The platform marks the issue as a Case, by type or by label.
PlatformCase(i) == i # 0 /\ kind[i] # "plain"

\* The distances, within `depth` links, at which issue i has a Case ancestor.
CaseDistances(i, depth) == {n \in 1..depth : PlatformCase(AncestorAt(i, n))}

\* The distance of the nearest one, 0 when there is none.
NearestCaseDistance(i, depth) ==
    IF CaseDistances(i, depth) = {} THEN 0
    ELSE CHOOSE n \in CaseDistances(i, depth) :
            \A m \in CaseDistances(i, depth) : n <= m

C27_NearestCaseAncestor ==
    (r_pc = "done" /\ ~IsCaseIssue(r_entry)) =>
       LET n == NearestCaseDistance(r_entry.url, r_entry_depth) IN
       \/ /\ n > 0
          /\ r_result = <<ParentProjection(IssueJson(AncestorAt(r_entry.url, n)))>>
          /\ r_fetches = n
       \/ /\ r_result = <<>>
          /\ \/ n = 0
             \/ r_depth > 0 /\ parent_of[r_issue.url] # 0

\* The nearest Case is exactly max_depth = 2 links away, a Case by its label,
\* above a parent that is none; the walk has fetched both and returned it.
C27_Witness ==
    /\ r_pc = "done"
    /\ r_entry_depth = 2
    /\ r_fetches = 2
    /\ r_result # <<>>
    /\ kind[AncestorAt(r_entry.url, 2)] = "labelled"
    /\ kind[AncestorAt(r_entry.url, 1)] = "plain"

(***************************************************************************)
(* C28: resolution is idempotent: when find_case_parent has returned a     *)
(* dict, the issue itself or the projection of a parent, and that dict is  *)
(* passed to find_case_parent again, the second call returns the same dict *)
(* and makes no parent fetch.                                              *)
(***************************************************************************)
C28_ResolutionIdempotent ==
    (r_first # <<>> /\ r_pc = "done") =>
        /\ r_result = r_first
        /\ r_fetches = 0

\* The projection of a parent that is a Case by its label only was passed to
\* a second call, which has returned.
C28_Witness ==
    /\ r_first # <<>>
    /\ r_pc = "done"
    /\ r_first[1].number = 0
    /\ ~IsCaseByType(r_first[1])

(***************************************************************************)
(* C23: once the report is assembled, the Case sections being enabled in   *)
(* the settings, every issue the platform served that has comments inside  *)
(* the active window and a resolved Case is written as                     *)
(* the '## Case:' heading of that Case, then (within that section) its     *)
(* '###' heading, then exactly one line per comment inside the window, in  *)
(* ascending created_at order, each under the display name of its author   *)
(* (the mapped name for a known login, the login otherwise).               *)
(***************************************************************************)
\* The comments of a served issue that are inside the active window.
WindowComments(issue) ==
    SelectSeq(issue.comments, LAMBDA comment : InActiveWindow(comment.created_at))

\* The Case the collector resolves for a served issue.
ResolvedCase(issue) == CaseParentOf(CollectedIssueDict(issue), DefaultMaxDepth)

\* The served comment of `issue` with this id, if there is one.
ServedComment(issue, id) ==
    {issue.comments[k] : k \in {k \in DOMAIN issue.comments :
                                   issue.comments[k].id = id}}

\* Lines b+1 .. b+n are the comment lines of the n window comments of the
\* issue, ascending by created_at, and line b+n+1 is no comment line.
CommentLinesFollow(issue, b) ==
    LET n == Len(WindowComments(issue)) IN
    /\ b + n <= Len(i_report)
    /\ \A k \in 1..n :
          /\ i_report[b + k].kind = "issue_comment"
          /\ \E c \in ServedComment(issue, i_report[b + k].ref) :
                /\ InActiveWindow(c.created_at)
                /\ i_report[b + k].name
                      = (IF c.user \in DOMAIN UsernameMapping
                            THEN UsernameMapping[c.user] ELSE c.user)
    /\ \A j, k \in 1..n :
          (j < k) =>
             \A cj \in ServedComment(issue, i_report[b + j].ref) :
             \A ck \in ServedComment(issue, i_report[b + k].ref) :
                cj.id # ck.id /\ cj.created_at <= ck.created_at
    /\ (b + n + 1 \in DOMAIN i_report) => i_report[b + n + 1].kind # "issue_comment"

C23_CaseSectionLayout ==
    (i_pc = "reported" /\ include_case_sections) =>
       \A issue \in ServedIssues :
          (WindowComments(issue) # <<>> /\ ResolvedCase(issue) # <<>>) =>
             \E a, b \in DOMAIN i_report :
                /\ a < b
                /\ i_report[a].kind = "case"
                /\ i_report[a].ref = ResolvedCase(issue)[1].url
                /\ \A c \in (a + 1)..(b - 1) : i_report[c].kind # "case"
                /\ i_report[b].kind = "issue"
                /\ i_report[b].repo = issue.repository
                /\ i_report[b].ref = issue.number
                /\ CommentLinesFollow(issue, b)

(***************************************************************************)
(* C24: an exact call collects every commit of the period that a branch    *)
(* holds: when the call has returned, each commit with start <= date <=    *)
(* end is in its repository's list, those the platform served and also one *)
(* that lies on the page after a full page of commits newer than end.      *)
(***************************************************************************)
InRepositoryList(repo, sha) ==
    \E k \in DOMAIN DictGet(all_commits, repo, <<>>) :
       DictGet(all_commits, repo, <<>>)[k].sha = sha

C24_ExactCommitsComplete ==
    (mode = "exact" /\ c_pc = "done") =>
       /\ \A repo \in DOMAIN c_seen : \A sha \in c_seen[repo] :
             WithinExactRange(CommitDate(sha)) => InRepositoryList(repo, sha)
       /\ \A k \in DOMAIN c_unread :
             WithinExactRange(CommitDate(c_unread[k].sha))
                => InRepositoryList(c_unread[k].repository, c_unread[k].sha)

(***************************************************************************)
(* C30: a page request for commits that raises ends the pagination of its  *)
(* branch and nothing else: the method does not raise, the commits the     *)
(* repository's list held are kept, the next branch of the repository is   *)
(* taken at its first page, after the last branch the list is stored and   *)
(* the next repository is taken, and the lists of the repositories already *)
(* done are not touched.  In a rolling and in an exact call.               *)
(***************************************************************************)
\* The shas of a list of commits.
ShasOf(list) == {list[k].sha : k \in DOMAIN list}

FailureIsolatedToBranch ==
    /\ c_pc' \in {"fetch", "branches", "done"}
    /\ \A repo \in DOMAIN all_commits : all_commits'[repo] = all_commits[repo]
    /\ IF c_branch < Len(c_branches)
          THEN /\ repo_commits' = repo_commits
               /\ c_pc' = "fetch"
               /\ c_repo' = c_repo
               /\ c_branch' = c_branch + 1
               /\ c_page' = 1
          ELSE /\ repositories[c_repo] \in DOMAIN all_commits'
               /\ ShasOf(all_commits'[repositories[c_repo]]) = ShasOf(repo_commits)
               /\ Len(all_commits'[repositories[c_repo]]) = Len(repo_commits)
               /\ IF c_repo < Len(repositories)
                     THEN c_pc' = "branches" /\ c_repo' = c_repo + 1
                     ELSE c_pc' = "done"

C30_CommitPageFailureIsolated ==
    /\ [][CommitsFetchFails => FailureIsolatedToBranch]_vars
    /\ [](\A k \in DOMAIN c_failed :
             c_pc = "done" =>
                /\ \A r \in DOMAIN repositories : repositories[r] \in DOMAIN all_commits
                /\ ShasOf(c_failed[k].commits)
                      \subseteq ShasOf(all_commits[c_failed[k].repository]))

\* A page request raised in the second repository while its list held a
\* commit; the call has returned with that commit and with the commits of
\* the first repository.
C30_Witness ==
    /\ c_pc = "done"
    /\ c_failed # <<>>
    /\ Len(repositories) = 2
    /\ c_failed[1].repository = repositories[2]
    /\ c_failed[1].commits # <<>>
    /\ all_commits[repositories[1]] # <<>>
    /\ ShasOf(c_failed[1].commits) \subseteq ShasOf(all_commits[repositories[2]])

====
